---- MODULE Spec2Model ----
(***************************************************************************)
(* Client-side data cache and bulk-analysis layer of the admin dashboard:  *)
(* the paginated fetchers of the users, contributions and records pages,   *)
(* the session-state caches with their time-based staleness predicates,    *)
(* the invalidation buttons, login/logout, and the bulk enrichment run.    *)
(*                                                                         *)
(* Time is counted in minutes.  A user or record is represented by its id  *)
(* (a positive integer; 0 stands for an entity whose id is empty).         *)
(***************************************************************************)
EXTENDS Integers, Sequences, FiniteSets, TLC

\* ------------------------------------------------------------------ bounds
\* Largest number of users the backend holds.
MaxUsers == 5
\* Largest page size (batch_size) a users fetcher is called with.
MaxBatch == 2
\* Largest number of records the backend holds.
MaxRecords == 5
\* The page size of fetch_all_records (limit = 1000 in the source, scaled down).
limit == 2
\* Largest total_contributions the backend reports for a user.
MaxMetric == 2
\* Length of the top contributors ranking (10 in the source, scaled down).
TopN == 2
\* Largest collection the gender breakdowns are compared on (besides the example).
MaxGenders == 2
\* Largest max_workers an enrichment run is started with (20 in the source, scaled down).
MaxWorkers == 2

\* ------------------------------------------------------- program constants
\* max_age_minutes default of is_cache_stale / is_records_cache_stale.
DefaultMaxAge == 30
\* max_age_minutes passed by analyze_user_activity_bulk.
ActivityMaxAge == 15

\* The minutes at which the session is observed.
Instants == {0, DefaultMaxAge, DefaultMaxAge + 1}

VARIABLES
    now,             \* the wall clock, datetime.now()
    server_users,    \* the backend's users listing, in server order
    server_records,  \* the backend's records listing, in server order
    session_state,   \* st.session_state: a mapping from the keys present to values
    lastCall,        \* what the last handler did: requests issued, value returned, signals
    run              \* the enrichment run (analyze_user_activity_bulk) going on, or the last one

vars == <<now, server_users, server_records, session_state, lastCall, run>>

\* ------------------------------------------------------------ dictionaries
Has(d, k) == k \in DOMAIN d
Del(d, k) == [x \in DOMAIN d \ {k} |-> d[x]]
Put(d, k, v) == (k :> v) @@ d
Min(a, b) == IF a < b THEN a ELSE b

\* ------------------------------------------------------------ the backend
\* The ids of the users the backend may hold, in the order it lists them
\* (neither ascending nor descending: MaxUsers, 1, MaxUsers - 1, 2, ...).
ServerOrder == [i \in 1..MaxUsers |-> IF i % 2 = 1 THEN MaxUsers - (i \div 2) ELSE i \div 2]
\* The backend holds the first n of them.
UserListings == {SubSeq(ServerOrder, 1, n) : n \in 0..MaxUsers}
PageSizes == 1..MaxBatch
\* The records the backend may hold: the first n of MaxRecords, 1, MaxRecords - 1, ...
RecordOrder == [i \in 1..MaxRecords |-> IF i % 2 = 1 THEN MaxRecords - (i \div 2) ELSE i \div 2]
RecordListings == {SubSeq(RecordOrder, 1, n) : n \in 0..MaxRecords}

\* The page the listing endpoint answers for ?skip=..&limit=..
Page(listing, skip, page_size) ==
    SubSeq(listing, skip + 1, Min(skip + page_size, Len(listing)))

\* What the k-th page request of one fetch meets: a script names the request
\* (at, 0 for none) that goes wrong and how.  "non200": a status other than 200;
\* "nonlist": status 200 with a JSON body that is not a list; "raise":
\* requests.get or r.json() raises.  An endpoint that is down raises always.
FailKinds == {"non200", "nonlist", "raise"}
NoFailure == [at |-> 0, kind |-> "none"]
Scripts(maxAt) == {NoFailure} \cup [at : 1..maxAt, kind : FailKinds]
Response(server, script, reqNo, skip, page_size) ==
    IF ~server.up THEN [kind |-> "raise", data |-> <<>>]
    ELSE IF script.at = reqNo THEN [kind |-> script.kind, data |-> <<>>]
    ELSE [kind |-> "ok", data |-> Page(server.listing, skip, page_size)]

\* ------------------------------------------------------ users_page.py
\* Variant: an entry aged exactly max_age_minutes counts as stale.
users_page_is_cache_stale_at_limit(ss, t, max_age_minutes) ==
    IF ~Has(ss, "all_users_cache_timestamp") THEN TRUE
    ELSE LET cache_timestamp == ss["all_users_cache_timestamp"] IN
         IF cache_timestamp \notin Int THEN TRUE
         ELSE (t - cache_timestamp) * 60 >= max_age_minutes * 60

users_page_is_cache_stale(ss, t, max_age_minutes) ==
    IF ~Has(ss, "all_users_cache_timestamp") THEN TRUE
    ELSE LET cache_timestamp == ss["all_users_cache_timestamp"] IN
         IF cache_timestamp \notin Int THEN TRUE
         ELSE (t - cache_timestamp) * 60 > max_age_minutes * 60

\* Variant: the short-page test is <= instead of <, so a full page ends the loop too.
RECURSIVE users_page_fetch_loop_full_page_ends(_, _, _, _, _, _)
users_page_fetch_loop_full_page_ends(server, batch_size, script, skip, all_users, offsets) ==
    LET r == Response(server, script, Len(offsets) + 1, skip, batch_size)
        asked == Append(offsets, skip)
    IN  IF r.kind = "raise"
        THEN [all |-> all_users, offsets |-> asked, errors |-> 0, raised |-> TRUE, fail |-> "raise"]
        ELSE IF r.kind = "ok"
        THEN IF r.data = <<>>
             THEN [all |-> all_users, offsets |-> asked, errors |-> 0, raised |-> FALSE, fail |-> "none"]
             ELSE IF Len(r.data) <= batch_size
             THEN [all |-> all_users \o r.data, offsets |-> asked, errors |-> 0, raised |-> FALSE, fail |-> "none"]
             ELSE users_page_fetch_loop_full_page_ends(server, batch_size, script,
                                                       skip + batch_size, all_users \o r.data, asked)
        ELSE [all |-> all_users, offsets |-> asked, errors |-> 1, raised |-> FALSE, fail |-> r.kind]

\* Variant: each page is put in front of the pages fetched before it.
RECURSIVE users_page_fetch_loop_prepends(_, _, _, _, _, _)
users_page_fetch_loop_prepends(server, batch_size, script, skip, all_users, offsets) ==
    LET r == Response(server, script, Len(offsets) + 1, skip, batch_size)
        asked == Append(offsets, skip)
    IN  IF r.kind = "raise"
        THEN [all |-> all_users, offsets |-> asked, errors |-> 0, raised |-> TRUE, fail |-> "raise"]
        ELSE IF r.kind = "ok"
        THEN IF r.data = <<>>
             THEN [all |-> all_users, offsets |-> asked, errors |-> 0, raised |-> FALSE, fail |-> "none"]
             ELSE IF Len(r.data) < batch_size
             THEN [all |-> r.data \o all_users, offsets |-> asked, errors |-> 0, raised |-> FALSE, fail |-> "none"]
             ELSE users_page_fetch_loop_prepends(server, batch_size, script, skip + batch_size,
                                                 r.data \o all_users, asked)
        ELSE [all |-> all_users, offsets |-> asked, errors |-> 1, raised |-> FALSE, fail |-> r.kind]

\* Variant: a body that is not a list discards the pages accumulated so far.
RECURSIVE users_page_fetch_loop_nonlist_discards(_, _, _, _, _, _)
users_page_fetch_loop_nonlist_discards(server, batch_size, script, skip, all_users, offsets) ==
    LET r == Response(server, script, Len(offsets) + 1, skip, batch_size)
        asked == Append(offsets, skip)
    IN  IF r.kind = "raise"
        THEN [all |-> all_users, offsets |-> asked, errors |-> 0, raised |-> TRUE, fail |-> "raise"]
        ELSE IF r.kind = "ok"
        THEN IF r.data = <<>>
             THEN [all |-> all_users, offsets |-> asked, errors |-> 0, raised |-> FALSE, fail |-> "none"]
             ELSE IF Len(r.data) < batch_size
             THEN [all |-> all_users \o r.data, offsets |-> asked, errors |-> 0, raised |-> FALSE, fail |-> "none"]
             ELSE users_page_fetch_loop_nonlist_discards(server, batch_size, script,
                                                         skip + batch_size, all_users \o r.data, asked)
        ELSE IF r.kind = "nonlist"
        THEN [all |-> <<>>, offsets |-> asked, errors |-> 1, raised |-> FALSE, fail |-> r.kind]
        ELSE [all |-> all_users, offsets |-> asked, errors |-> 1, raised |-> FALSE, fail |-> r.kind]

\* Variant: a request refused with a status other than 200 is tried once more.
RECURSIVE users_page_fetch_loop_retries(_, _, _, _, _, _)
users_page_fetch_loop_retries(server, batch_size, script, skip, all_users, offsets) ==
    LET r == Response(server, script, Len(offsets) + 1, skip, batch_size)
        asked == Append(offsets, skip)
    IN  IF r.kind = "raise"
        THEN [all |-> all_users, offsets |-> asked, errors |-> 0, raised |-> TRUE, fail |-> "raise"]
        ELSE IF r.kind = "ok"
        THEN IF r.data = <<>>
             THEN [all |-> all_users, offsets |-> asked, errors |-> 0, raised |-> FALSE, fail |-> "none"]
             ELSE IF Len(r.data) < batch_size
             THEN [all |-> all_users \o r.data, offsets |-> asked, errors |-> 0, raised |-> FALSE, fail |-> "none"]
             ELSE users_page_fetch_loop_retries(server, batch_size, script, skip + batch_size,
                                                all_users \o r.data, asked)
        ELSE IF r.kind = "non200"
        THEN users_page_fetch_loop_retries(server, batch_size, script, skip, all_users, asked)
        ELSE [all |-> all_users, offsets |-> asked, errors |-> 1, raised |-> FALSE, fail |-> r.kind]

\* The while loop of fetch_all_users_batched.  Yields the accumulated list, the
\* offsets requested, the number of st.error calls and whether an exception
\* left the loop.
RECURSIVE users_page_fetch_loop(_, _, _, _, _, _)
users_page_fetch_loop(server, batch_size, script, skip, all_users, offsets) ==
    LET r == Response(server, script, Len(offsets) + 1, skip, batch_size)
        asked == Append(offsets, skip)
    IN  IF r.kind = "raise"
        THEN [all |-> all_users, offsets |-> asked, errors |-> 0, raised |-> TRUE, fail |-> "raise"]
        ELSE IF r.kind = "ok"
        THEN IF r.data = <<>>
             THEN [all |-> all_users, offsets |-> asked, errors |-> 0, raised |-> FALSE, fail |-> "none"]
             ELSE IF Len(r.data) < batch_size
             THEN [all |-> all_users \o r.data, offsets |-> asked, errors |-> 0, raised |-> FALSE, fail |-> "none"]
             ELSE users_page_fetch_loop(server, batch_size, script, skip + batch_size,
                                        all_users \o r.data, asked)
        ELSE \* "nonlist": unexpected response format; "non200": failed to fetch
             [all |-> all_users, offsets |-> asked, errors |-> 1, raised |-> FALSE, fail |-> r.kind]

\* Variant: a cache hit renews the timestamp.
users_page_fetch_all_users_batched_hit_renews(ss, t, server, batch_size, script) ==
    IF Has(ss, "all_users_cache") /\ ss["all_users_cache"] # <<>>
       /\ ~users_page_is_cache_stale(ss, t, DefaultMaxAge)
    THEN [ss |-> Put(ss, "all_users_cache_timestamp", t), ret |-> ss["all_users_cache"],
          hit |-> TRUE, offsets |-> <<>>, errors |-> 0, fail |-> "none"]
    ELSE LET w == users_page_fetch_loop(server, batch_size, script, 0, <<>>, <<>>) IN
         IF w.raised
         THEN [ss |-> ss, ret |-> <<>>, hit |-> FALSE, offsets |-> w.offsets,
               errors |-> 1, fail |-> w.fail]
         ELSE [ss |-> Put(Put(ss, "all_users_cache", w.all), "all_users_cache_timestamp", t),
               ret |-> w.all, hit |-> FALSE, offsets |-> w.offsets,
               errors |-> w.errors, fail |-> w.fail]

\* Variant: a refresh appends the fetched users to the collection already stored.
users_page_fetch_all_users_batched_merges(ss, t, server, batch_size, script) ==
    IF Has(ss, "all_users_cache") /\ ss["all_users_cache"] # <<>>
       /\ ~users_page_is_cache_stale(ss, t, DefaultMaxAge)
    THEN [ss |-> ss, ret |-> ss["all_users_cache"], hit |-> TRUE, offsets |-> <<>>,
          errors |-> 0, fail |-> "none"]
    ELSE LET w == users_page_fetch_loop(server, batch_size, script, 0, <<>>, <<>>) IN
         IF w.raised
         THEN [ss |-> ss, ret |-> <<>>, hit |-> FALSE, offsets |-> w.offsets,
               errors |-> 1, fail |-> w.fail]
         ELSE [ss |-> Put(Put(ss, "all_users_cache",
                              (IF Has(ss, "all_users_cache") THEN ss["all_users_cache"] ELSE <<>>)
                                  \o w.all),
                          "all_users_cache_timestamp", t),
               ret |-> w.all, hit |-> FALSE, offsets |-> w.offsets,
               errors |-> w.errors, fail |-> w.fail]

\* Variant: a fetch that ended on an error returns its pages without storing them.
users_page_fetch_all_users_batched_skips_partial(ss, t, server, batch_size, script) ==
    IF Has(ss, "all_users_cache") /\ ss["all_users_cache"] # <<>>
       /\ ~users_page_is_cache_stale(ss, t, DefaultMaxAge)
    THEN [ss |-> ss, ret |-> ss["all_users_cache"], hit |-> TRUE, offsets |-> <<>>,
          errors |-> 0, fail |-> "none"]
    ELSE LET w == users_page_fetch_loop(server, batch_size, script, 0, <<>>, <<>>) IN
         IF w.raised
         THEN [ss |-> ss, ret |-> <<>>, hit |-> FALSE, offsets |-> w.offsets,
               errors |-> 1, fail |-> w.fail]
         ELSE [ss |-> IF w.errors > 0 THEN ss
                      ELSE Put(Put(ss, "all_users_cache", w.all), "all_users_cache_timestamp", t),
               ret |-> w.all, hit |-> FALSE, offsets |-> w.offsets,
               errors |-> w.errors, fail |-> w.fail]

\* Variant: when a request raises, the pages fetched so far are stored and returned.
users_page_fetch_all_users_batched_raise_keeps_pages(ss, t, server, batch_size, script) ==
    IF Has(ss, "all_users_cache") /\ ss["all_users_cache"] # <<>>
       /\ ~users_page_is_cache_stale(ss, t, DefaultMaxAge)
    THEN [ss |-> ss, ret |-> ss["all_users_cache"], hit |-> TRUE, offsets |-> <<>>,
          errors |-> 0, fail |-> "none"]
    ELSE LET w == users_page_fetch_loop(server, batch_size, script, 0, <<>>, <<>>) IN
         [ss |-> Put(Put(ss, "all_users_cache", w.all), "all_users_cache_timestamp", t),
          ret |-> w.all, hit |-> FALSE, offsets |-> w.offsets,
          errors |-> IF w.raised THEN 1 ELSE w.errors, fail |-> w.fail]

\* fetch_all_users_batched(token, batch_size): the session state afterwards, the
\* value returned and what was observed on the way.
users_page_fetch_all_users_batched(ss, t, server, batch_size, script) ==
    IF Has(ss, "all_users_cache") /\ ss["all_users_cache"] # <<>>
       /\ ~users_page_is_cache_stale(ss, t, DefaultMaxAge)
    THEN [ss |-> ss, ret |-> ss["all_users_cache"], hit |-> TRUE, offsets |-> <<>>,
          errors |-> 0, fail |-> "none"]
    ELSE LET w == users_page_fetch_loop(server, batch_size, script, 0, <<>>, <<>>) IN
         IF w.raised
         THEN [ss |-> ss, ret |-> <<>>, hit |-> FALSE, offsets |-> w.offsets,
               errors |-> 1, fail |-> w.fail]
         ELSE [ss |-> Put(Put(ss, "all_users_cache", w.all), "all_users_cache_timestamp", t),
               ret |-> w.all, hit |-> FALSE, offsets |-> w.offsets,
               errors |-> w.errors, fail |-> w.fail]

\* Variant: the buttons delete the timestamp only.
users_page_drop_cache_keeps_collection(ss) ==
    IF Has(ss, "all_users_cache_timestamp") THEN Del(ss, "all_users_cache_timestamp") ELSE ss

\* The Refresh Users and Clear Cache buttons of render_users_page.
users_page_drop_cache(ss) ==
    LET s1 == IF Has(ss, "all_users_cache") THEN Del(ss, "all_users_cache") ELSE ss
    IN  IF Has(s1, "all_users_cache_timestamp") THEN Del(s1, "all_users_cache_timestamp") ELSE s1

\* ------------------------------------------------------ contributions_page.py
contributions_is_cache_stale(ss, t, max_age_minutes) ==
    IF ~Has(ss, "all_users_cache_timestamp") THEN TRUE
    ELSE LET cache_timestamp == ss["all_users_cache_timestamp"] IN
         IF cache_timestamp \notin Int THEN TRUE
         ELSE (t - cache_timestamp) * 60 > max_age_minutes * 60

\* The while loop of fetch_all_users_batched (batch_count feeds the progress bar only).
RECURSIVE contributions_fetch_loop(_, _, _, _, _, _)
contributions_fetch_loop(server, batch_size, script, skip, all_users, offsets) ==
    LET r == Response(server, script, Len(offsets) + 1, skip, batch_size)
        asked == Append(offsets, skip)
    IN  IF r.kind = "raise"
        THEN [all |-> all_users, offsets |-> asked, errors |-> 0, raised |-> TRUE, fail |-> "raise"]
        ELSE IF r.kind = "ok"
        THEN IF r.data = <<>>
             THEN [all |-> all_users, offsets |-> asked, errors |-> 0, raised |-> FALSE, fail |-> "none"]
             ELSE IF Len(r.data) < batch_size
             THEN [all |-> all_users \o r.data, offsets |-> asked, errors |-> 0, raised |-> FALSE, fail |-> "none"]
             ELSE contributions_fetch_loop(server, batch_size, script, skip + batch_size,
                                           all_users \o r.data, asked)
        ELSE [all |-> all_users, offsets |-> asked, errors |-> 1, raised |-> FALSE, fail |-> r.kind]

\* Variant: the analysis timestamp is left behind.
clear_users_cache_keeps_stamp(ss) ==
    Del(Del(Del(ss, "all_users_cache"), "all_users_cache_timestamp"), "activity_analysis_cache")

contributions_fetch_all_users_batched(ss, t, server, batch_size, script) ==
    IF Has(ss, "all_users_cache") /\ ss["all_users_cache"] # <<>>
       /\ ~contributions_is_cache_stale(ss, t, DefaultMaxAge)
    THEN [ss |-> ss, ret |-> ss["all_users_cache"], hit |-> TRUE, offsets |-> <<>>,
          errors |-> 0, fail |-> "none"]
    ELSE LET w == contributions_fetch_loop(server, batch_size, script, 0, <<>>, <<>>) IN
         IF w.raised
         THEN [ss |-> ss, ret |-> <<>>, hit |-> FALSE, offsets |-> w.offsets,
               errors |-> 1, fail |-> w.fail]
         ELSE [ss |-> Put(Put(ss, "all_users_cache", w.all), "all_users_cache_timestamp", t),
               ret |-> w.all, hit |-> FALSE, offsets |-> w.offsets,
               errors |-> w.errors, fail |-> w.fail]

clear_users_cache(ss) ==
    LET s1 == IF Has(ss, "all_users_cache") THEN Del(ss, "all_users_cache") ELSE ss
        s2 == IF Has(s1, "all_users_cache_timestamp") THEN Del(s1, "all_users_cache_timestamp") ELSE s1
        s3 == IF Has(s2, "activity_analysis_cache") THEN Del(s2, "activity_analysis_cache") ELSE s2
    IN  IF Has(s3, "activity_analysis_timestamp") THEN Del(s3, "activity_analysis_timestamp") ELSE s3

\* The answer of GET /users/{id}/contributions to one worker: "raise" (no answer:
\* connection error or the 10 s timeout), "non200", "nondict" (status 200, the
\* body is not an object), "nokey" (an object without total_contributions),
\* "null" (an object whose total_contributions is null), "ok" (an object
\* reporting total).
FailedAnswers == [kind : {"raise", "non200", "nondict"}, total : {0}]
Answers == FailedAnswers \cup [kind : {"nokey", "null"}, total : {0}]
               \cup [kind : {"ok"}, total : 0..MaxMetric]

\* Python's None among totals: a value apart from every total the backend
\* reports (0..MaxMetric), which cannot be compared with a number.
None == 0 - 1

\* data.get('total_contributions', 0) for an answer with status 200 and an
\* object as body.
total_of(answer) ==
    IF answer.kind = "nokey" THEN 0
    ELSE IF answer.kind = "null" THEN None
    ELSE answer.total

\* Variant: a failed call loses the user's id.
fetch_user_contributions_summary_loses_id(user_id, answer) ==
    IF answer.kind = "raise" THEN <<0, 0>>
    ELSE IF answer.kind # "non200"
    THEN IF answer.kind # "nondict"
         THEN <<user_id, total_of(answer)>>
         ELSE <<0, 0>>
    ELSE <<0, 0>>

\* fetch_user_contributions_summary(token, user_id): the pair the worker returns.
fetch_user_contributions_summary(user_id, answer) ==
    IF answer.kind = "raise" THEN <<user_id, 0>>
    ELSE IF answer.kind # "non200"
    THEN IF answer.kind # "nondict"
         THEN <<user_id, total_of(answer)>>
         ELSE <<user_id, 0>>
    ELSE <<user_id, 0>>

\* A Python dict as the sequence of its items in insertion order: d[k] = v.
DictSet(d, k, v) ==
    IF \E i \in DOMAIN d : d[i].key = k
    THEN [i \in DOMAIN d |-> IF d[i].key = k THEN [key |-> k, value |-> v] ELSE d[i]]
    ELSE Append(d, [key |-> k, value |-> v])
DictKeys(d) == {d[i].key : i \in DOMAIN d}
\* The position of key k in d.
DictGet(d, k) == CHOOSE i \in DOMAIN d : d[i].key = k

\* The users analyze_user_activity_bulk submits a task for: those with an id.
scheduled_users(users) == SelectSeq(users, LAMBDA user : user # 0)

\* The cache test at the top of analyze_user_activity_bulk.
analysis_cache_usable(ss, t) ==
    /\ Has(ss, "activity_analysis_cache")
    /\ Has(ss, "activity_analysis_timestamp")
    /\ ~contributions_is_cache_stale(ss, t, ActivityMaxAge)

\* Variant: any total that is not negative counts as a contribution.
activity_entry_counts_zero(user, total_contributions) ==
    [user |-> user, total_contributions |-> total_contributions,
     has_contributions |-> total_contributions >= 0]

\* The entry the completion loop stores for a result.
activity_entry(user, total_contributions) ==
    [user |-> user, total_contributions |-> total_contributions,
     has_contributions |-> total_contributions > 0]

\* Variant: an entry without contributions starts the map afresh.
collect_future_restarts(user_activity, user, result) ==
    IF result[2] # None
    THEN IF result[2] > 0
         THEN DictSet(user_activity, result[1], activity_entry(user, result[2]))
         ELSE DictSet(<<>>, result[1], activity_entry(user, result[2]))
    ELSE DictSet(user_activity, user,
                 [user |-> user, total_contributions |-> 0, has_contributions |-> FALSE])

\* One turn of the completion loop: the body of `for future in as_completed(..)`.
\* The except branch is taken when the total cannot be compared with 0 (None).
collect_future(user_activity, user, result) ==
    IF result[2] # None
    THEN DictSet(user_activity, result[1], activity_entry(user, result[2]))
    ELSE DictSet(user_activity, user,
                 [user |-> user, total_contributions |-> 0, has_contributions |-> FALSE])

\* The two stores at the end of analyze_user_activity_bulk.
store_analysis(ss, t, user_activity) ==
    Put(Put(ss, "activity_analysis_cache", user_activity), "activity_analysis_timestamp", t)

\* sum(...) over a sequence of numbers.
RECURSIVE sum(_)
sum(q) == IF q = <<>> THEN 0 ELSE q[1] + sum(Tail(q))

\* user_activity.values(): the entries in insertion order.
dict_values(d) == [i \in DOMAIN d |-> d[i].value]

\* sorted(pairs, key=lambda x: x[1], reverse=True): a stable sort, pairs with
\* equal key keep the order they have in the input.
RECURSIVE sorted_by_total_reverse(_)
sorted_by_total_reverse(pairs) ==
    IF pairs = <<>> THEN <<>>
    ELSE LET n == Len(pairs)
             x == pairs[n]
             front == sorted_by_total_reverse(SubSeq(pairs, 1, n - 1))
             keep == Cardinality({i \in DOMAIN front : front[i][2] >= x[2]})
         IN  SubSeq(front, 1, keep) \o <<x>> \o SubSeq(front, keep + 1, Len(front))

\* Variant: the rate is taken over the entries of the map.
activity_statistics_rate_over_map(all_users, user_activity) ==
    LET total_users == Len(all_users)
        values == dict_values(user_activity)
        users_with_contributions ==
            sum([i \in DOMAIN values |-> IF values[i].has_contributions THEN 1 ELSE 0])
        pairs == [i \in DOMAIN values |-> <<values[i].user, values[i].total_contributions>>]
        ranked == sorted_by_total_reverse(pairs)
    IN  [total_users |-> total_users,
         users_with_contributions |-> users_with_contributions,
         users_with_zero_records |-> total_users - users_with_contributions,
         activity_rate |-> IF Len(values) > 0
                           THEN [num |-> users_with_contributions * 100, den |-> Len(values)]
                           ELSE [num |-> 0, den |-> 1],
         total_contributions_sum |->
             sum([i \in DOMAIN values |-> values[i].total_contributions]),
         top_contributors |-> SubSeq(ranked, 1, Min(TopN, Len(ranked)))]

\* get_user_activity_statistics after the enrichment: the statistics over the
\* users and their map (gender_counts and active_users_flag, which read other
\* fields of the users, apart).  activity_rate is the fraction num / den.
activity_statistics(all_users, user_activity) ==
    LET total_users == Len(all_users)
        values == dict_values(user_activity)
        users_with_contributions ==
            sum([i \in DOMAIN values |-> IF values[i].has_contributions THEN 1 ELSE 0])
        pairs == [i \in DOMAIN values |-> <<values[i].user, values[i].total_contributions>>]
        ranked == sorted_by_total_reverse(pairs)
    IN  [total_users |-> total_users,
         users_with_contributions |-> users_with_contributions,
         users_with_zero_records |-> total_users - users_with_contributions,
         activity_rate |-> IF total_users > 0
                           THEN [num |-> users_with_contributions * 100, den |-> total_users]
                           ELSE [num |-> 0, den |-> 1],
         total_contributions_sum |->
             sum([i \in DOMAIN values |-> values[i].total_contributions]),
         top_contributors |-> SubSeq(ranked, 1, Min(TopN, Len(ranked)))]

\* -------------------------------------------------- the gender breakdowns
\* A user's gender field: missing, null, or a string (its characters).
GenderMissing == [kind |-> "missing", chars |-> <<>>]
GenderNull == [kind |-> "null", chars |-> <<>>]
Str(chars) == [kind |-> "str", chars |-> chars]

\* str.lower() and str.strip() on the characters of a string.
UpperCase == <<"A", "B", "E", "F", "H", "L", "M", "O", "R", "T">>
LowerCase == <<"a", "b", "e", "f", "h", "l", "m", "o", "r", "t">>
lower_char(c) ==
    IF \E i \in DOMAIN UpperCase : UpperCase[i] = c
    THEN LowerCase[CHOOSE i \in DOMAIN UpperCase : UpperCase[i] = c]
    ELSE c
lower(chars) == [i \in DOMAIN chars |-> lower_char(chars[i])]
Whitespace == {" ", "\t", "\n"}
RECURSIVE lstrip(_)
lstrip(chars) ==
    IF chars # <<>> /\ chars[1] \in Whitespace THEN lstrip(Tail(chars)) ELSE chars
RECURSIVE rstrip(_)
rstrip(chars) ==
    IF chars # <<>> /\ chars[Len(chars)] \in Whitespace
    THEN rstrip(SubSeq(chars, 1, Len(chars) - 1)) ELSE chars
strip(chars) == rstrip(lstrip(chars))

\* The literals of the two breakdowns.
MALE_ == <<"m", "a", "l", "e">>
M_ == <<"m">>
FEMALE_ == <<"f", "e", "m", "a", "l", "e">>
F_ == <<"f">>
OTHER_ == <<"o", "t", "h", "e", "r">>
O_ == <<"o">>
UNKNOWN_ == <<"u", "n", "k", "n", "o", "w", "n">>

\* The buckets of both pages: the if / elif chain on the normalised value.
gender_bucket(gender) ==
    IF gender \in {MALE_, M_} THEN "male"
    ELSE IF gender \in {FEMALE_, F_} THEN "female"
    ELSE IF gender \in {OTHER_, O_} THEN "other"
    ELSE "unknown"

\* Variant: the value is trimmed but not lower-cased.
users_page_gender_keeps_case(value) ==
    strip(IF value.kind = "str" /\ value.chars # <<>> THEN value.chars ELSE UNKNOWN_)

\* users_page.py: (u.get('gender') or 'unknown').lower().strip()
users_page_gender(value) ==
    strip(lower(IF value.kind = "str" /\ value.chars # <<>> THEN value.chars ELSE UNKNOWN_))

\* contributions_page.py: user.get('gender', 'unknown'), None replaced by
\* 'unknown', then str(gender).lower().strip()
contributions_gender(value) ==
    strip(lower(IF value.kind = "str" THEN value.chars ELSE UNKNOWN_))

\* gender_counts after the loop over the users, on each page.
GenderBuckets == {"male", "female", "other", "unknown"}
users_page_gender_counts(users) ==
    [b \in GenderBuckets |->
        Cardinality({i \in DOMAIN users : gender_bucket(users_page_gender(users[i])) = b})]
contributions_gender_counts(users) ==
    [b \in GenderBuckets |->
        Cardinality({i \in DOMAIN users : gender_bucket(contributions_gender(users[i])) = b})]

\* ------------------------------------------------------ records_page.py
is_records_cache_stale(ss, t, max_age_minutes) ==
    IF ~Has(ss, "records_cache_timestamp") THEN TRUE
    ELSE LET cache_timestamp == ss["records_cache_timestamp"] IN
         IF cache_timestamp \notin Int THEN TRUE
         ELSE (t - cache_timestamp) * 60 > max_age_minutes * 60

clear_records_cache(ss) ==
    LET s1 == IF Has(ss, "records_cache") THEN Del(ss, "records_cache") ELSE ss
    IN  IF Has(s1, "records_cache_timestamp") THEN Del(s1, "records_cache_timestamp") ELSE s1

\* The while loop of fetch_all_records.
RECURSIVE records_fetch_loop(_, _, _, _, _)
records_fetch_loop(server, script, skip, all_records, offsets) ==
    LET r == Response(server, script, Len(offsets) + 1, skip, limit)
        asked == Append(offsets, skip)
    IN  IF r.kind = "raise"
        THEN [all |-> all_records, offsets |-> asked, errors |-> 0, raised |-> TRUE, fail |-> "raise"]
        ELSE IF r.kind = "ok"
        THEN LET batch_records == r.data
                 batch_size == Len(batch_records)
             IN  IF batch_records = <<>>
                 THEN [all |-> all_records, offsets |-> asked, errors |-> 0, raised |-> FALSE, fail |-> "none"]
                 ELSE IF batch_size < limit
                 THEN [all |-> all_records \o batch_records, offsets |-> asked, errors |-> 0,
                       raised |-> FALSE, fail |-> "none"]
                 ELSE records_fetch_loop(server, script, skip + limit,
                                         all_records \o batch_records, asked)
        ELSE [all |-> all_records, offsets |-> asked, errors |-> 1, raised |-> FALSE, fail |-> r.kind]

fetch_all_records(ss, t, server, script) ==
    IF Has(ss, "records_cache") /\ ss["records_cache"] # <<>>
       /\ ~is_records_cache_stale(ss, t, DefaultMaxAge)
    THEN [ss |-> ss, ret |-> ss["records_cache"], hit |-> TRUE, offsets |-> <<>>,
          errors |-> 0, fail |-> "none"]
    ELSE LET w == records_fetch_loop(server, script, 0, <<>>, <<>>) IN
         IF w.raised
         THEN [ss |-> ss, ret |-> <<>>, hit |-> FALSE, offsets |-> w.offsets,
               errors |-> 1, fail |-> w.fail]
         ELSE [ss |-> Put(Put(ss, "records_cache", w.all), "records_cache_timestamp", t),
               ret |-> w.all, hit |-> FALSE, offsets |-> w.offsets,
               errors |-> w.errors, fail |-> w.fail]

\* ------------------------------------------------------------ main.py
\* The keys main() sets when they are missing.
main_init(ss) ==
    LET s1 == IF Has(ss, "logged_in") THEN ss ELSE Put(ss, "logged_in", FALSE)
        s2 == IF Has(s1, "token") THEN s1 ELSE Put(s1, "token", "None")
    IN  IF Has(s2, "page") THEN s2 ELSE Put(s2, "page", "login")

EmptyState == [x \in {} |-> 0]

\* The answers of verify-otp: status 200 with the admin role among the roles
\* and an access_token ("admin") or without one ("admin_no_token"), status 200
\* without the admin role, another status, no answer or one that does not
\* decode ("raise").
VerifyAnswers == {"admin", "admin_no_token", "not_admin", "non200", "raise"}
AdminAnswers == {"admin", "admin_no_token"}

\* Variant: any status 200 logs in, whatever the roles.
verify_otp_submit_admits_any_role(ss, answer) ==
    IF answer \in AdminAnswers \cup {"not_admin"}
    THEN Put(Put(Put(ss, "token", IF answer = "admin_no_token" THEN "None" ELSE "tok"),
                 "logged_in", TRUE), "page", "users")
    ELSE ss

\* render_login_page, Verify OTP: only status 200 with the admin role logs in;
\* the token is data.get("access_token"), None when the answer holds none.
verify_otp_submit(ss, answer) ==
    IF answer \in AdminAnswers
    THEN Put(Put(Put(ss, "token", IF answer = "admin_no_token" THEN "None" ELSE "tok"),
                 "logged_in", TRUE), "page", "users")
    ELSE ss

\* Variant: Logout removes the login keys only.
logout_keeps_caches(ss) == Del(Del(ss, "logged_in"), "token")

\* render_sidebar, Logout: for key in list(st.session_state.keys()): del ...
RECURSIVE logout(_)
logout(ss) ==
    IF DOMAIN ss = {} THEN ss
    ELSE logout(Del(ss, CHOOSE key \in DOMAIN ss : TRUE))

\* The guard of main() before a resource page is rendered.
LoggedIn(ss) == ss["logged_in"] /\ ss["token"] # "None"

\* ------------------------------------------------------ the API operations
\* The answer of the backend to one request: none (requests raises: connection
\* error, timeout), or a status with a body that is a JSON object holding the
\* field the operation reads ("dict"), a JSON object without it ("dict_nokey"),
\* other JSON ("list"), text that is no JSON ("undecodable") or empty ("empty").
NoResponse == [sent |-> FALSE, status |-> 0, body |-> "empty"]
ApiAnswers == {NoResponse}
                \cup [sent : {TRUE}, status : {200, 201, 204, 404, 500},
                      body : {"dict", "dict_nokey", "list", "undecodable", "empty"}]

\* What an operation does for its caller: it raises, or returns a value, a
\* (success, message) pair or a (success, message, status) triple.
Raised == [raised |-> TRUE, shape |-> "none", success |-> FALSE, value |-> "exception"]
Value(v) == [raised |-> FALSE, shape |-> "value", success |-> FALSE, value |-> v]
Pair(success, message) ==
    [raised |-> FALSE, shape |-> "pair", success |-> success, value |-> message]
Triple(success, message) ==
    [raised |-> FALSE, shape |-> "triple", success |-> success, value |-> message]

\* try: body / except Exception: handler.
Try(body, handler) == IF body.raised THEN handler ELSE body
\* requests.get/post/put/delete(...), then the rest.
Request(a, rest) == IF a.sent THEN rest ELSE Raised
\* response.json(), isinstance(data, dict), and response.json().get(key, default)
Json(a, v) == IF a.body \in {"dict", "dict_nokey", "list"} THEN Value(v) ELSE Raised
IsDict(a) == a.body \in {"dict", "dict_nokey"}
JsonGet(a, v, default) ==
    IF a.body = "dict" THEN Value(v)
    ELSE IF a.body = "dict_nokey" THEN Value(default)
    ELSE Raised

\* utils.py
fetch_data(a) ==
    Try(Request(a, IF a.status = 200 THEN Json(a, "json") ELSE Value("[]")), Value("[]"))

\* The message of a failed write of utils.py:
\* response.json().get("detail", response.text) if response.text else "Unknown error"
error_msg(a) ==
    IF a.body # "empty" THEN JsonGet(a, "detail", "text") ELSE Value("Unknown error")

create_data(a) ==
    Try(Request(a, IF a.status \in {200, 201} THEN Pair(TRUE, "Created successfully")
                   ELSE IF error_msg(a).raised THEN Raised
                   ELSE Pair(FALSE, error_msg(a).value)),
        Pair(FALSE, "Network error"))
update_data(a) ==
    Try(Request(a, IF a.status = 200 THEN Pair(TRUE, "Updated successfully")
                   ELSE IF error_msg(a).raised THEN Raised
                   ELSE Pair(FALSE, error_msg(a).value)),
        Pair(FALSE, "Network error"))
delete_data(a) ==
    Try(Request(a, IF a.status \in {200, 204} THEN Pair(TRUE, "Deleted successfully")
                   ELSE IF error_msg(a).raised THEN Raised
                   ELSE Pair(FALSE, error_msg(a).value)),
        Pair(FALSE, "Network error"))
is_token_valid(a) ==
    Try(Request(a, Value(IF a.status = 200 THEN "True" ELSE "False")), Value("False"))

\* users_page.py, categories_page.py, records_page.py: is_authenticated
is_authenticated(a) ==
    Try(Request(a, Value(IF a.status = 200 THEN "True" ELSE "False")), Value("False"))

\* users_page.py
fetch_user_by_id(a) ==
    Try(Request(a, IF a.status = 200 THEN Json(a, "json") ELSE Value("None")), Value("None"))

\* Variant: the detail of a refused creation is read outside the try block.
create_user_reads_detail_unguarded(a) ==
    IF a.sent /\ a.status # 201 /\ ~IsDict(a) THEN Raised
    ELSE Try(Request(a, IF a.status = 201 THEN Pair(TRUE, "User created successfully.")
                        ELSE Pair(FALSE, JsonGet(a, "detail", "Error creating user.").value)),
             Pair(FALSE, "Network error"))

create_user(a) ==
    Try(Request(a, IF a.status = 201 THEN Pair(TRUE, "User created successfully.")
                   ELSE IF JsonGet(a, "detail", "Error creating user.").raised THEN Raised
                   ELSE Pair(FALSE, JsonGet(a, "detail", "Error creating user.").value)),
        Pair(FALSE, "Network error"))
update_user(a) ==
    Try(Request(a, IF a.status = 200 THEN Pair(TRUE, "User updated successfully.")
                   ELSE IF JsonGet(a, "detail", "Error updating user.").raised THEN Raised
                   ELSE Pair(FALSE, JsonGet(a, "detail", "Error updating user.").value)),
        Pair(FALSE, "Network error"))
delete_user(a) ==
    Try(Request(a, IF a.status = 200
                   THEN Triple(TRUE, Try(JsonGet(a, "message", "User deleted successfully."),
                                         Value("User deleted successfully.")).value)
                   ELSE Triple(FALSE, Try(JsonGet(a, "detail", "Error deleting user."),
                                          Value(IF a.body # "empty" THEN "text"
                                                ELSE "Error deleting user.")).value)),
        Triple(FALSE, "Network error"))

\* categories_page.py
categories_fetch_all_categories(a) ==
    Try(Request(a, IF a.status = 200 THEN Json(a, "json") ELSE Value("[]")), Value("[]"))
fetch_category_by_id(a) ==
    Try(Request(a, IF a.status = 200 THEN Json(a, "json") ELSE Value("None")), Value("None"))
create_category(a) ==
    Try(Request(a, IF a.status = 201 THEN Pair(TRUE, "Category created successfully.")
                   ELSE IF JsonGet(a, "detail", "Unknown error occurred.").raised THEN Raised
                   ELSE Pair(FALSE, JsonGet(a, "detail", "Unknown error occurred.").value)),
        Pair(FALSE, "Network error"))
update_category(a) ==
    Try(Request(a, IF a.status = 200 THEN Pair(TRUE, "Category updated successfully.")
                   ELSE IF JsonGet(a, "detail", "Unknown error occurred.").raised THEN Raised
                   ELSE Pair(FALSE, JsonGet(a, "detail", "Unknown error occurred.").value)),
        Pair(FALSE, "Network error"))
delete_category(a) ==
    Try(Request(a, IF a.status = 204 THEN Pair(TRUE, "Category deleted successfully.")
                   ELSE Pair(FALSE, Try(JsonGet(a, "detail", "Unknown error occurred."),
                                        Value(IF a.body # "empty" THEN "text"
                                              ELSE "Unknown error occurred.")).value)),
        Pair(FALSE, "Network error"))

\* records_page.py
fetch_record_by_id(a) ==
    Try(Request(a, IF a.status = 200 THEN Json(a, "json") ELSE Value("None")), Value("None"))
records_fetch_all_categories(a) ==
    Try(Request(a, IF a.status = 200 THEN Json(a, "json") ELSE Value("[]")), Value("[]"))
fetch_user_id(a) ==
    Try(Request(a, IF a.status = 200 THEN JsonGet(a, "id", "None") ELSE Value("None")), Value("None"))
upload_record(a) ==
    Try(Request(a, IF a.status \in {200, 201} THEN Pair(TRUE, "Record uploaded successfully.")
                   ELSE Pair(FALSE, Try(JsonGet(a, "detail", "text"), Value("text")).value)),
        Pair(FALSE, "Network error"))
delete_record(a) ==
    Try(Request(a, IF a.status = 204 THEN Pair(TRUE, "Record deleted successfully.")
                   ELSE Pair(FALSE, Try(JsonGet(a, "detail", "text"),
                                        Value(IF a.body # "empty" THEN "text"
                                              ELSE "Error deleting record.")).value)),
        Pair(FALSE, "Network error"))
update_record(a) ==
    Try(Request(a, IF a.status = 200 THEN Pair(TRUE, "Record updated successfully.")
                   ELSE Pair(FALSE, Try(JsonGet(a, "detail", "text"), Value("text")).value)),
        Pair(FALSE, "Network error"))

\* contributions_page.py
fetch_user_contributions(a) ==
    Try(Request(a, IF a.status = 200
                   THEN IF Json(a, "json").raised THEN Raised
                        ELSE IF IsDict(a) THEN Value("json") ELSE Value("empty summary")
                   ELSE Value("empty summary")),
        Value("empty summary"))
fetch_user_contributions_by_media(a) ==
    Try(Request(a, IF a.status = 200
                   THEN IF Json(a, "json").raised THEN Raised
                        ELSE IF IsDict(a) THEN Value("json") ELSE Value("empty summary")
                   ELSE Value("empty summary")),
        Value("empty summary"))

\* The operations by name, and which status each write takes for success.
ReadOps == {"utils.fetch_data", "utils.is_token_valid", "is_authenticated",
            "users_page.fetch_user_by_id", "categories_page.fetch_all_categories",
            "categories_page.fetch_category_by_id", "records_page.fetch_record_by_id",
            "records_page.fetch_all_categories", "records_page.fetch_user_id",
            "contributions_page.fetch_user_contributions",
            "contributions_page.fetch_user_contributions_by_media"}
WriteOps == {"utils.create_data", "utils.update_data", "utils.delete_data",
             "users_page.create_user", "users_page.update_user", "users_page.delete_user",
             "categories_page.create_category", "categories_page.update_category",
             "categories_page.delete_category", "records_page.upload_record",
             "records_page.delete_record", "records_page.update_record"}
ApiOps == ReadOps \cup WriteOps

ApiResult(op, a) ==
    CASE op = "utils.fetch_data" -> fetch_data(a)
      [] op = "utils.is_token_valid" -> is_token_valid(a)
      [] op = "is_authenticated" -> is_authenticated(a)
      [] op = "users_page.fetch_user_by_id" -> fetch_user_by_id(a)
      [] op = "categories_page.fetch_all_categories" -> categories_fetch_all_categories(a)
      [] op = "categories_page.fetch_category_by_id" -> fetch_category_by_id(a)
      [] op = "records_page.fetch_record_by_id" -> fetch_record_by_id(a)
      [] op = "records_page.fetch_all_categories" -> records_fetch_all_categories(a)
      [] op = "records_page.fetch_user_id" -> fetch_user_id(a)
      [] op = "contributions_page.fetch_user_contributions" -> fetch_user_contributions(a)
      [] op = "contributions_page.fetch_user_contributions_by_media" ->
             fetch_user_contributions_by_media(a)
      [] op = "utils.create_data" -> create_data(a)
      [] op = "utils.update_data" -> update_data(a)
      [] op = "utils.delete_data" -> delete_data(a)
      [] op = "users_page.create_user" -> create_user(a)
      [] op = "users_page.update_user" -> update_user(a)
      [] op = "users_page.delete_user" -> delete_user(a)
      [] op = "categories_page.create_category" -> create_category(a)
      [] op = "categories_page.update_category" -> update_category(a)
      [] op = "categories_page.delete_category" -> delete_category(a)
      [] op = "records_page.upload_record" -> upload_record(a)
      [] op = "records_page.delete_record" -> delete_record(a)
      [] op = "records_page.update_record" -> update_record(a)

\* ------------------------------------------------------------ observation
\* The state of a cache entry as the cache contract sees it.
EntryStatus(ss, key, tskey, t, ttl) ==
    IF ~Has(ss, key) \/ ~Has(ss, tskey) THEN "absent"
    ELSE IF t - ss[tskey] > ttl THEN "stale" ELSE "fresh"
Stored(ss, key) == IF Has(ss, key) THEN ss[key] ELSE <<>>

Items(q) == {q[i] : i \in DOMAIN q}

\* What the last handler did.  op: the handler; batch: its page size; hit: the
\* cache answered; offsets: the skip values requested, in order; ret: the value
\* returned; fail: the failure met, at: by which request (0: none, or the
\* endpoint is down); errors: the st.error calls made; pre: the
\* entry before the call; old_empty: it held an empty collection; dropped: it
\* held an item the call did not return; analysis: what the call did about the
\* enrichment ("none", "hit", "running", "cold"), map: the enrichment map it
\* returned, analysis_pre: the enrichment entry by its own timestamp when the
\* call tested the enrichment cache ("none": it did not), stats: what
\* get_user_activity_statistics returned (<<>>: None or not returned yet, else
\* the one statistics record); after: the invalidation this call
\* follows with no time in between ("none" if none), after_fresh: which removed
\* an entry that was not stale.
NoCall == [op |-> "none", batch |-> 0, hit |-> FALSE, offsets |-> <<>>, ret |-> <<>>,
           fail |-> "none", at |-> 0, errors |-> 0, analysis |-> "none", map |-> <<>>,
           analysis_pre |-> "none", stats |-> <<>>, pre |-> "absent", old_empty |-> TRUE,
           dropped |-> FALSE, after |-> "none", after_fresh |-> FALSE]

InvalidationOps == {"users_page.refresh_or_clear", "contributions_page.clear_users_cache",
                    "records_page.clear_records_cache"}

FetchCall(name, key, tskey, batch_size, script, w) ==
    [op |-> name, batch |-> batch_size, hit |-> w.hit, offsets |-> w.offsets, ret |-> w.ret,
     fail |-> w.fail, at |-> script.at, errors |-> w.errors, analysis |-> "none", map |-> <<>>,
     analysis_pre |-> "none", stats |-> <<>>,
     pre |-> EntryStatus(session_state, key, tskey, now, DefaultMaxAge),
     old_empty |-> Stored(session_state, key) = <<>>,
     dropped |-> Items(Stored(session_state, key)) \ Items(w.ret) # {},
     after |-> IF lastCall.op \in InvalidationOps THEN lastCall.op ELSE "none",
     after_fresh |-> lastCall.op \in InvalidationOps /\ lastCall.pre = "fresh"]

DropCall(name, key, tskey) ==
    [NoCall EXCEPT !.op = name,
                   !.pre = EntryStatus(session_state, key, tskey, now, DefaultMaxAge),
                   !.old_empty = Stored(session_state, key) = <<>>,
                   !.analysis = IF Has(session_state, "activity_analysis_cache")
                                THEN "held" ELSE "none"]

\* No enrichment run yet.  pc: "idle", "submitting" (the executor.submit calls),
\* "collecting" (the as_completed loop); units: one per submitted future, in
\* submission order, with the user it is for, its state ("new": not yet
\* submitted, "pending": queued, "running", "done", "collected"), the pair the
\* worker returned, whether its call failed and the total the backend reported
\* (-1: none).
NoRun == [pc |-> "idle", users |-> <<>>, max_workers |-> 0, total_users |-> 0,
          units |-> <<>>, user_activity |-> <<>>, completed_count |-> 0]
Idle == run.pc = "idle"
NewUnit(user) == [user |-> user, st |-> "new", result |-> <<0, 0>>, failed |-> FALSE,
                  reported |-> -1]
UnitsIn(st) == {i \in DOMAIN run.units : run.units[i].st = st}

\* The request the script fails was issued by the call (a script whose failing
\* request is never issued is the script without failure, and so is every
\* script when the endpoint is down).
Occurs(server, script, w) ==
    IF server.up THEN script.at <= Len(w.offsets) ELSE script = NoFailure

\* ------------------------------------------------------------ actions
Up(listing) == [up |-> TRUE, listing |-> listing]
Down == [up |-> FALSE, listing |-> <<>>]

\* A fresh session (main() has set its keys) at minute 0.  One of the two
\* listing endpoints is reachable and holds some listing; the other is down.
Init ==
    /\ now = 0
    /\ \/ server_users \in {Up(l) : l \in UserListings} /\ server_records = Down
       \/ server_users = Down /\ server_records \in {Up(l) : l \in RecordListings}
    /\ session_state = main_init(EmptyState)
    /\ lastCall = NoCall
    /\ run = NoRun

\* Time passes: the session is observed at the minutes around the age limit.
TickOf(instants) ==
    \E t \in instants :
        /\ Idle
        /\ t > now
        /\ now' = t
        /\ lastCall' = NoCall
        /\ UNCHANGED <<server_users, server_records, session_state, run>>

\* Users are added to or removed from the backend by somebody else.
UsersServerChangeOf(listings) ==
    \E l \in listings \ {server_users.listing} :
        /\ Idle
        /\ server_users.up
        /\ server_users' = Up(l)
        /\ lastCall' = NoCall
        /\ UNCHANGED <<now, server_records, session_state, run>>

RecordsServerChange ==
    \E l \in RecordListings \ {server_records.listing} :
        /\ Idle
        /\ server_records.up
        /\ server_records' = Up(l)
        /\ lastCall' = NoCall
        /\ UNCHANGED <<now, server_users, session_state, run>>

\* render_login_page, Verify OTP: the answer of verify-otp decides.
Login ==
    \E answer \in VerifyAnswers :
        /\ Idle
        /\ ~LoggedIn(session_state)
        /\ session_state' = verify_otp_submit(session_state, answer)
        /\ lastCall' = [NoCall EXCEPT !.op = "verify_otp", !.fail = answer]
        /\ UNCHANGED <<now, server_users, server_records, run>>

\* render_sidebar, Logout: every key is deleted; the rerun's main() sets its keys again.
Logout ==
    /\ Idle
    /\ LoggedIn(session_state)
    /\ session_state' = main_init(logout(session_state))
    /\ lastCall' = DropCall("logout", "all_users_cache", "all_users_cache_timestamp")
    /\ UNCHANGED <<now, server_users, server_records, run>>

\* The operator selects Users in the sidebar; render_users_page fetches all users.
UsersPageViewOf(batchSizes, scripts) ==
    \E batch_size \in batchSizes, script \in scripts :
        LET ss == Put(session_state, "page", "users")
            w == users_page_fetch_all_users_batched(ss, now, server_users, batch_size, script)
        IN  /\ Idle
            /\ LoggedIn(session_state)
            /\ Occurs(server_users, script, w)
            /\ session_state' = w.ss
            /\ lastCall' = FetchCall("users_page.fetch_all_users_batched", "all_users_cache",
                                     "all_users_cache_timestamp", batch_size, script, w)
            /\ UNCHANGED <<now, server_users, server_records, run>>

\* The Refresh Users and Clear Cache buttons of the users page (the same code).
UsersPageRefreshOrClear ==
    /\ Idle
    /\ LoggedIn(session_state)
    /\ session_state["page"] = "users"
    /\ session_state' = users_page_drop_cache(session_state)
    /\ lastCall' = DropCall("users_page.refresh_or_clear", "all_users_cache",
                            "all_users_cache_timestamp")
    /\ UNCHANGED <<now, server_users, server_records, run>>

\* The operator selects Contributions; the user tabs fetch all users.
ContributionsPageViewOf(batchSizes, scripts) ==
    \E batch_size \in batchSizes, script \in scripts :
        LET ss == Put(session_state, "page", "contributions")
            w == contributions_fetch_all_users_batched(ss, now, server_users, batch_size, script)
        IN  /\ Idle
            /\ LoggedIn(session_state)
            /\ Occurs(server_users, script, w)
            /\ session_state' = w.ss
            /\ lastCall' = FetchCall("contributions_page.fetch_all_users_batched",
                                     "all_users_cache", "all_users_cache_timestamp", batch_size, script, w)
            /\ UNCHANGED <<now, server_users, server_records, run>>

\* The Refresh Analysis and Refresh Users buttons of the contributions page.
ContributionsPageRefresh ==
    /\ Idle
    /\ LoggedIn(session_state)
    /\ session_state["page"] = "contributions"
    /\ session_state' = clear_users_cache(session_state)
    /\ lastCall' = DropCall("contributions_page.clear_users_cache", "all_users_cache",
                            "all_users_cache_timestamp")
    /\ UNCHANGED <<now, server_users, server_records, run>>

\* The operator selects Records; render_records_page fetches all records.
RecordsPageViewOf(scripts) ==
    \E script \in scripts :
        LET ss == Put(session_state, "page", "records")
            w == fetch_all_records(ss, now, server_records, script)
        IN  /\ Idle
            /\ LoggedIn(session_state)
            /\ Occurs(server_records, script, w)
            /\ session_state' = w.ss
            /\ lastCall' = FetchCall("records_page.fetch_all_records", "records_cache",
                                     "records_cache_timestamp", limit, script, w)
            /\ UNCHANGED <<now, server_users, server_records, run>>

\* The Refresh Records button of the records page.
RecordsPageRefresh ==
    /\ Idle
    /\ LoggedIn(session_state)
    /\ session_state["page"] = "records"
    /\ session_state' = clear_records_cache(session_state)
    /\ lastCall' = DropCall("records_page.clear_records_cache", "records_cache",
                            "records_cache_timestamp")
    /\ UNCHANGED <<now, server_users, server_records, run>>


\* The operator selects Contributions; the Activity Analytics tab calls
\* get_user_activity_statistics: it fetches all users and, unless there are none
\* or the cached analysis is usable, starts an enrichment run.
StatisticsStart(batchSizes, scripts, workerCounts) ==
    \E batch_size \in batchSizes, script \in scripts, max_workers \in workerCounts :
        LET ss == Put(session_state, "page", "contributions")
            w == contributions_fetch_all_users_batched(ss, now, server_users, batch_size, script)
            call == FetchCall("contributions_page.get_user_activity_statistics",
                              "all_users_cache", "all_users_cache_timestamp", batch_size,
                              script, w)
            all_users == w.ret
            analysis_pre == EntryStatus(w.ss, "activity_analysis_cache",
                                        "activity_analysis_timestamp", now, ActivityMaxAge)
            units == [i \in DOMAIN scheduled_users(all_users) |->
                          NewUnit(scheduled_users(all_users)[i])]
        IN  /\ Idle
            /\ LoggedIn(session_state)
            /\ Occurs(server_users, script, w)
            /\ session_state' = w.ss
            /\ IF all_users = <<>>
               THEN /\ lastCall' = call
                    /\ run' = run
               ELSE IF analysis_cache_usable(w.ss, now)
               THEN /\ lastCall' = [call EXCEPT !.analysis = "hit",
                                                !.analysis_pre = analysis_pre,
                                                !.map = w.ss["activity_analysis_cache"],
                                                !.stats = <<activity_statistics(
                                                    all_users,
                                                    w.ss["activity_analysis_cache"])>>]
                    /\ run' = run
               ELSE /\ lastCall' = [call EXCEPT !.analysis = "running",
                                                !.analysis_pre = analysis_pre]
                    /\ run' = [pc |-> IF units = <<>> THEN "collecting" ELSE "submitting",
                               users |-> all_users, max_workers |-> max_workers,
                               total_users |-> Len(all_users), units |-> units,
                               user_activity |-> <<>>, completed_count |-> 0]
            /\ UNCHANGED <<now, server_users, server_records>>

\* executor.submit: the next user's task is queued.
Submit ==
    /\ run.pc = "submitting"
    /\ LET i == CHOOSE i \in UnitsIn("new") : \A j \in UnitsIn("new") : i <= j IN
       run' = [run EXCEPT !.units[i].st = "pending",
                          !.pc = IF UnitsIn("new") = {i} THEN "collecting" ELSE "submitting"]
    /\ UNCHANGED <<now, server_users, server_records, session_state, lastCall>>

\* Variant: a thread per queued task, however many are running.
StartTask_ignores_limit ==
    /\ UnitsIn("pending") # {}
    /\ LET i == CHOOSE i \in UnitsIn("pending") : \A j \in UnitsIn("pending") : i <= j IN
       run' = [run EXCEPT !.units[i].st = "running"]
    /\ UNCHANGED <<now, server_users, server_records, session_state, lastCall>>

\* Variant: a thread that has run a task never takes another one.
StartTask_thread_runs_one_task ==
    /\ UnitsIn("pending") # {}
    /\ Cardinality(UnitsIn("running") \cup UnitsIn("done") \cup UnitsIn("collected"))
           < run.max_workers
    /\ LET i == CHOOSE i \in UnitsIn("pending") : \A j \in UnitsIn("pending") : i <= j IN
       run' = [run EXCEPT !.units[i].st = "running"]
    /\ UNCHANGED <<now, server_users, server_records, session_state, lastCall>>

\* A worker thread takes the oldest queued task; there are max_workers threads.
StartTask ==
    /\ UnitsIn("pending") # {}
    /\ Cardinality(UnitsIn("running")) < run.max_workers
    /\ LET i == CHOOSE i \in UnitsIn("pending") : \A j \in UnitsIn("pending") : i <= j IN
       run' = [run EXCEPT !.units[i].st = "running"]
    /\ UNCHANGED <<now, server_users, server_records, session_state, lastCall>>

\* Variant: the worker thread stores its entry and counts itself when its call returns.
Finish_stores_entry(answers) ==
    \E i \in UnitsIn("running"), answer \in answers :
        LET result == fetch_user_contributions_summary(run.units[i].user, answer) IN
        /\ run' = [run EXCEPT
                     !.units[i].st = "done",
                     !.units[i].result = result,
                     !.units[i].failed = answer \in FailedAnswers,
                     !.units[i].reported = IF answer.kind = "ok" THEN answer.total ELSE -1,
                     !.user_activity = collect_future(run.user_activity, run.units[i].user, result),
                     !.completed_count = run.completed_count + 1]
        /\ UNCHANGED <<now, server_users, server_records, session_state, lastCall>>

\* A running task gets its answer (or none within the timeout) and returns.
Finish(answers) ==
    \E i \in UnitsIn("running"), answer \in answers :
        /\ run' = [run EXCEPT
                     !.units[i].st = "done",
                     !.units[i].result = fetch_user_contributions_summary(run.units[i].user, answer),
                     !.units[i].failed = answer \in FailedAnswers,
                     !.units[i].reported = IF answer.kind = "ok" THEN answer.total ELSE -1]
        /\ UNCHANGED <<now, server_users, server_records, session_state, lastCall>>

\* as_completed hands a finished future to the loop body, which stores its entry
\* and counts it (update_progress).
Collect ==
    \E i \in UnitsIn("done") :
        /\ run.pc = "collecting"
        /\ run' = [run EXCEPT
                     !.units[i].st = "collected",
                     !.user_activity = collect_future(run.user_activity, run.units[i].user,
                                                       run.units[i].result),
                     !.completed_count = run.completed_count + 1]
        /\ UNCHANGED <<now, server_users, server_records, session_state, lastCall>>

\* Every future has been handled: the result is cached and returned, and
\* get_user_activity_statistics computes its statistics from it.
Return ==
    /\ run.pc = "collecting"
    /\ UnitsIn("collected") = DOMAIN run.units
    /\ session_state' = store_analysis(session_state, now, run.user_activity)
    /\ lastCall' = [lastCall EXCEPT !.analysis = "cold", !.map = run.user_activity,
                                    !.stats = <<activity_statistics(run.users,
                                                                    run.user_activity)>>]
    /\ run' = [run EXCEPT !.pc = "idle"]
    /\ UNCHANGED <<now, server_users, server_records>>

\* The steps of an enrichment run.
PoolStep == Submit \/ StartTask \/ Finish(Answers) \/ Collect \/ Return

Tick == TickOf(Instants)
UsersServerChange == UsersServerChangeOf(UserListings)
UsersPageView == UsersPageViewOf(PageSizes, Scripts(MaxUsers + 1))
ContributionsPageView == ContributionsPageViewOf(PageSizes, Scripts(MaxUsers + 1))
RecordsPageView == RecordsPageViewOf(Scripts(MaxRecords + 1))

Next ==
    \/ Tick
    \/ UsersServerChange
    \/ RecordsServerChange
    \/ Login
    \/ Logout
    \/ UsersPageView
    \/ UsersPageRefreshOrClear
    \/ ContributionsPageView
    \/ ContributionsPageRefresh
    \/ RecordsPageView
    \/ RecordsPageRefresh

Spec == Init /\ [][Next]_vars

\* ---------------------------------------------------- the enrichment run
\* The users listings enrichment runs are started on: distinct ids, a user
\* without id, and an id listed twice.
EnrichListings == {<<>>, <<2>>, <<3, 1>>, <<3, 1, 2>>, <<1, 0, 2>>, <<1, 1>>}

\* A logged-in session on the contributions page, nothing cached yet.
InitEnrich ==
    /\ now = 0
    /\ server_users \in {Up(l) : l \in EnrichListings}
    /\ server_records = Down
    /\ session_state = Put(verify_otp_submit(main_init(EmptyState), "admin"),
                           "page", "contributions")
    /\ lastCall = NoCall
    /\ run = NoRun

EnrichStatistics == StatisticsStart(PageSizes, {NoFailure}, 1..MaxWorkers)

NextEnrich ==
    \/ EnrichStatistics
    \/ Submit
    \/ StartTask
    \/ Finish(Answers)
    \/ Collect
    \/ Return

SpecEnrich == InitEnrich /\ [][NextEnrich]_vars

\* The enrichment run with its scheduling: the main thread goes on submitting,
\* collecting and returning; an idle worker thread takes a queued task; and a
\* running request ends, with an answer or by its timeout of 10 seconds
\* (requests.get(..., timeout=10)). A unit times out or is refused, or answers
\* with a total.
FairAnswers == {[kind |-> "raise", total |-> 0], [kind |-> "non200", total |-> 0],
                [kind |-> "ok", total |-> 1]}

NextEnrichFair ==
    \/ StatisticsStart({MaxBatch}, {NoFailure}, 1..MaxWorkers)
    \/ Submit
    \/ StartTask
    \/ Finish(FairAnswers)
    \/ Collect
    \/ Return

SpecEnrichFair ==
    /\ InitEnrich
    /\ [][NextEnrichFair]_vars
    /\ WF_vars(Submit)
    /\ WF_vars(StartTask)
    /\ WF_vars(Finish(FairAnswers))
    /\ WF_vars(Collect)
    /\ WF_vars(Return)

\* ---------------------------------------------------- the whole session
\* One operator session over all pages, both endpoints reachable, with the
\* enrichment run interleaved; the script thread does nothing else while a
\* run is in progress.
SessionAnswers == {[kind |-> "raise", total |-> 0], [kind |-> "ok", total |-> 1]}

InitSession ==
    /\ now = 0
    /\ server_users = Up(<<2>>)
    /\ server_records = Up(<<1>>)
    /\ session_state = main_init(EmptyState)
    /\ lastCall = NoCall
    /\ run = NoRun

SessionScripts == Scripts(1)
SessionUsersView == UsersPageViewOf({MaxBatch}, SessionScripts)
SessionContributionsView == ContributionsPageViewOf({MaxBatch}, SessionScripts)
SessionRecordsView == RecordsPageViewOf(SessionScripts)
SessionStatistics == StatisticsStart({MaxBatch}, SessionScripts, {MaxWorkers})

NextSession ==
    \/ Tick
    \/ Login
    \/ Logout
    \/ SessionUsersView
    \/ UsersPageRefreshOrClear
    \/ SessionContributionsView
    \/ ContributionsPageRefresh
    \/ SessionRecordsView
    \/ RecordsPageRefresh
    \/ SessionStatistics
    \/ Submit
    \/ StartTask
    \/ Finish(SessionAnswers)
    \/ Collect
    \/ Return

SpecSession == InitSession /\ [][NextSession]_vars

\* ------------------------------------------- the enrichment cache over time
\* A logged-in operator moves between the users page and the Activity
\* Analytics tab while time passes and the backend's users change.
AnalysisListings == {<<2>>, <<2, 1>>}
AnalysisInstants == {0, 1, ActivityMaxAge, ActivityMaxAge + 1}

InitAnalysis ==
    /\ now = 0
    /\ server_users \in {Up(l) : l \in AnalysisListings}
    /\ server_records = Down
    /\ session_state = Put(verify_otp_submit(main_init(EmptyState), "admin"),
                           "page", "contributions")
    /\ lastCall = NoCall
    /\ run = NoRun

AnalysisTick == TickOf(AnalysisInstants)
AnalysisServerChange == UsersServerChangeOf(AnalysisListings)
AnalysisUsersView == UsersPageViewOf({MaxBatch}, {NoFailure})
AnalysisStatistics == StatisticsStart({MaxBatch}, {NoFailure}, {MaxWorkers})

NextAnalysis ==
    \/ AnalysisTick
    \/ AnalysisServerChange
    \/ AnalysisUsersView
    \/ UsersPageRefreshOrClear
    \/ ContributionsPageRefresh
    \/ AnalysisStatistics
    \/ Submit
    \/ StartTask
    \/ Finish(SessionAnswers)
    \/ Collect
    \/ Return

SpecAnalysis == InitAnalysis /\ [][NextAnalysis]_vars

\* ------------------------------------------------ the gender breakdowns
\* The gender values of the users of a collection.
GenderValues ==
    {GenderMissing, GenderNull,
     Str(<<>>), Str(<<"M", "a", "l", "e">>), Str(<<"m">>), Str(<<"M">>),
     Str(<<"F", "E", "M", "A", "L", "E">>), Str(<<" ", "F", " ">>), Str(<<"f", "\n">>),
     Str(<<"O", "t", "h", "e", "r">>), Str(<<"o">>), Str(<<"b", "l", "a", "h">>),
     Str(<<"s", "t", "r", "i", "n", "g">>), Str(<<"n", "u", "l", "l">>),
     Str(<<"u", "n", "k", "n", "o", "w", "n">>), Str(<<"f", "e", " ", "m", "a", "l", "e">>),
     Str(<<" ">>)}

\* Male, m, FEMALE, blah, '', None.
GenderExample ==
    <<Str(<<"M", "a", "l", "e">>), Str(<<"m">>), Str(<<"F", "E", "M", "A", "L", "E">>),
      Str(<<"b", "l", "a", "h">>), Str(<<>>), GenderNull>>

\* The collections the breakdowns are computed for: every collection of up to
\* MaxGenders users, and the example.
GenderCollections ==
    UNION {[1..n -> GenderValues] : n \in 0..MaxGenders} \cup {GenderExample}

InitGender ==
    /\ now = 0
    /\ server_users \in {Up(l) : l \in GenderCollections}
    /\ server_records = Down
    /\ session_state = verify_otp_submit(main_init(EmptyState), "admin")
    /\ lastCall = NoCall
    /\ run = NoRun

\* Both pages compute their gender_counts for the users of the backend.
GenderBreakdown ==
    /\ lastCall = NoCall
    /\ lastCall' = [NoCall EXCEPT
                      !.op = "gender_counts",
                      !.ret = server_users.listing,
                      !.stats = <<[users_page |-> users_page_gender_counts(server_users.listing),
                                   contributions_page |->
                                       contributions_gender_counts(server_users.listing)]>>]
    /\ UNCHANGED <<now, server_users, server_records, session_state, run>>

NextGender == GenderBreakdown

SpecGender == InitGender /\ [][NextGender]_vars

\* ----------------------------------------------------- the API operations
\* A logged-in session calls the operations one at a time; the backend
\* answers each call in any way.
InitApi ==
    /\ now = 0
    /\ server_users = Down
    /\ server_records = Down
    /\ session_state = verify_otp_submit(main_init(EmptyState), "admin")
    /\ lastCall = NoCall
    /\ run = NoRun

ApiCall ==
    \E op \in ApiOps, a \in ApiAnswers :
        /\ lastCall' = [NoCall EXCEPT !.op = op,
                                      !.stats = <<[answer |-> a, result |-> ApiResult(op, a)]>>]
        /\ UNCHANGED <<now, server_users, server_records, session_state, run>>

NextApi == ApiCall

SpecApi == InitApi /\ [][NextApi]_vars

\* ------------------------------------------------- writes and the caches
\* What the backend answers to a write.
WriteAnswers == {NoResponse} \cup [sent : {TRUE}, status : {200, 201, 204}, body : {"dict"}]
\* The listing after the backend has performed the write: a created entity is
\* listed last, the entity listed last is the one deleted, an update keeps the ids.
Performed(op, listing, order) ==
    IF op \in {"users_page.create_user", "records_page.upload_record"}
    THEN Append(listing, order[Len(listing) + 1])
    ELSE IF op \in {"users_page.delete_user", "records_page.delete_record"}
    THEN SubSeq(listing, 1, Len(listing) - 1)
    ELSE listing
WriteCall(op, a) == [NoCall EXCEPT !.op = op, !.stats = <<[answer |-> a, result |-> ApiResult(op, a)]>>]

\* Variant: a successful write drops the users cache.
UsersPageWrite_drops_cache ==
    \E op \in {"users_page.create_user", "users_page.update_user", "users_page.delete_user"},
       a \in WriteAnswers :
        /\ Idle
        /\ LoggedIn(session_state)
        /\ server_users.up
        /\ op = "users_page.create_user" => Len(server_users.listing) <= MaxBatch
        /\ op # "users_page.create_user" => server_users.listing # <<>>
        /\ server_users' = IF ApiResult(op, a).success
                            THEN Up(Performed(op, server_users.listing, ServerOrder))
                            ELSE server_users
        /\ session_state' = IF ApiResult(op, a).success
                             THEN users_page_drop_cache(Put(session_state, "page", "users"))
                             ELSE Put(session_state, "page", "users")
        /\ lastCall' = WriteCall(op, a)
        /\ UNCHANGED <<now, server_records, run>>

\* The forms and buttons of the users page that create, update or delete a user.
UsersPageWrite ==
    \E op \in {"users_page.create_user", "users_page.update_user", "users_page.delete_user"},
       a \in WriteAnswers :
        /\ Idle
        /\ LoggedIn(session_state)
        /\ server_users.up
        /\ op = "users_page.create_user" => Len(server_users.listing) <= MaxBatch
        /\ op # "users_page.create_user" => server_users.listing # <<>>
        /\ server_users' = IF ApiResult(op, a).success
                            THEN Up(Performed(op, server_users.listing, ServerOrder))
                            ELSE server_users
        /\ session_state' = Put(session_state, "page", "users")
        /\ lastCall' = WriteCall(op, a)
        /\ UNCHANGED <<now, server_records, run>>

\* The forms and buttons of the records page that upload, update or delete a record.
RecordsPageWrite ==
    \E op \in {"records_page.upload_record", "records_page.update_record",
                "records_page.delete_record"},
       a \in WriteAnswers :
        /\ Idle
        /\ LoggedIn(session_state)
        /\ server_records.up
        /\ op = "records_page.upload_record" => Len(server_records.listing) <= limit
        /\ op # "records_page.upload_record" => server_records.listing # <<>>
        /\ server_records' = IF ApiResult(op, a).success
                              THEN Up(Performed(op, server_records.listing, RecordOrder))
                              ELSE server_records
        /\ session_state' = Put(session_state, "page", "records")
        /\ lastCall' = WriteCall(op, a)
        /\ UNCHANGED <<now, server_users, run>>

\* A logged-in operator; the users endpoint is reachable and holds one or two
\* users, or the records endpoint is and holds no or one record.
InitWrite ==
    /\ now = 0
    /\ \/ server_users \in {Up(SubSeq(ServerOrder, 1, n)) : n \in 1..2} /\ server_records = Down
       \/ server_users = Down /\ server_records \in {Up(SubSeq(RecordOrder, 1, n)) : n \in 0..1}
    /\ session_state = verify_otp_submit(main_init(EmptyState), "admin")
    /\ lastCall = NoCall
    /\ run = NoRun

NextWrite ==
    \/ Tick
    \/ UsersPageViewOf({MaxBatch}, {NoFailure})
    \/ ContributionsPageViewOf({MaxBatch}, {NoFailure})
    \/ RecordsPageViewOf({NoFailure})
    \/ UsersPageWrite
    \/ RecordsPageWrite

SpecWrite == InitWrite /\ [][NextWrite]_vars

\* ------------------------------------------------------------ properties
UsersFetchOps == {"users_page.fetch_all_users_batched",
                  "contributions_page.fetch_all_users_batched"}
RecordsFetchOps == {"records_page.fetch_all_records"}
FetchOps == UsersFetchOps \cup RecordsFetchOps

\* The endpoint, the cache keys and the invalidations of the fetcher of the last call.
CalledServer == IF lastCall.op \in RecordsFetchOps THEN server_records ELSE server_users
CalledKey == IF lastCall.op \in RecordsFetchOps THEN "records_cache" ELSE "all_users_cache"
CalledTsKey ==
    IF lastCall.op \in RecordsFetchOps THEN "records_cache_timestamp"
    ELSE "all_users_cache_timestamp"
CalledInvalidations ==
    IF lastCall.op \in RecordsFetchOps THEN {"records_page.clear_records_cache"}
    ELSE {"users_page.refresh_or_clear", "contributions_page.clear_users_cache"}

\* The last call was a fetcher call that went to the network.
ColdFetch == lastCall.op \in FetchOps /\ ~lastCall.hit
\* ... and every page request it issued succeeded.
CleanFetch == ColdFetch /\ lastCall.fail = "none"

Ceil(n, p) == (n + p - 1) \div p
\* The offsets 0, P, 2P, ... of n requests.
Offsets(n, p) == [i \in 1..n |-> (i - 1) * p]
RECURSIVE PagesAt(_, _, _)
\* The concatenation of the pages of a listing at the given offsets.
PagesAt(listing, offs, p) ==
    IF offs = <<>> THEN <<>>
    ELSE Page(listing, Head(offs), p) \o PagesAt(listing, Tail(offs), p)

\* C1, as stated: a cold fetch whose page requests all succeed issues exactly
\* ceil(N/P) page requests, N = 0 and N a positive multiple of P included.
C1_CeilRequests ==
    CleanFetch => Len(lastCall.offsets) = Ceil(Len(CalledServer.listing), lastCall.batch)

\* C1, amended: a cold fetch whose page requests all succeed issues exactly
\* floor(N/P) + 1 page requests: ceil(N/P) when P does not divide N, and one more
\* (the request answered by the empty page) when it does, N = 0 included.
C1_RequestCount ==
    CleanFetch =>
        LET N == Len(CalledServer.listing)
            P == lastCall.batch
        IN  /\ Len(lastCall.offsets) = N \div P + 1
            /\ Len(lastCall.offsets) = IF N % P = 0 THEN Ceil(N, P) + 1 ELSE Ceil(N, P)

C1_Witness ==
    /\ CleanFetch
    /\ lastCall.op = "records_page.fetch_all_records"
    /\ Len(CalledServer.listing) = 2 * lastCall.batch
    /\ Len(lastCall.offsets) = 3

\* C2: a cold fetch whose page requests all succeed returns exactly the server's
\* items, each once and in server order (the pages at offsets 0, P, 2P, ...
\* concatenated), and the cache holds that same sequence.
C2_CompleteInOrder ==
    CleanFetch =>
        /\ lastCall.ret = CalledServer.listing
        /\ lastCall.offsets = Offsets(Len(lastCall.offsets), lastCall.batch)
        /\ lastCall.ret = PagesAt(CalledServer.listing, lastCall.offsets, lastCall.batch)
        /\ Has(session_state, CalledKey)
        /\ session_state[CalledKey] = lastCall.ret

C2_Witness ==
    /\ CleanFetch
    /\ lastCall.op = "contributions_page.fetch_all_users_batched"
    /\ Len(lastCall.offsets) = 3
    /\ Len(lastCall.ret) = MaxUsers
    /\ session_state["all_users_cache"] = server_users.listing

\* C3: when the k-th page request meets a status other than 200, or a 200 whose
\* body is not a list, the fetcher issues no further request, returns exactly
\* the pages 1..k-1 concatenated (possibly nothing) and emits an error; the two
\* kinds of failure are handled alike.
C3_PrefixOnFailure ==
    (ColdFetch /\ lastCall.fail \in {"non200", "nonlist"}) =>
        LET k == lastCall.at IN
        /\ lastCall.offsets = Offsets(k, lastCall.batch)
        /\ lastCall.ret = PagesAt(CalledServer.listing, Offsets(k - 1, lastCall.batch),
                                  lastCall.batch)
        /\ Len(lastCall.ret) = (k - 1) * lastCall.batch
        /\ lastCall.errors = 1

C3_Witness ==
    /\ ColdFetch
    /\ lastCall.op = "users_page.fetch_all_users_batched"
    /\ lastCall.fail = "nonlist"
    /\ lastCall.at = 3
    /\ Len(lastCall.ret) = 2 * lastCall.batch
    /\ lastCall.ret # <<>>

\* C4, as stated: whatever collection the entry holds, a fetcher call on an
\* entry that exists and is not stale issues no request and returns the stored
\* collection.
C4_AnyFreshEntryHits ==
    (lastCall.op \in FetchOps /\ lastCall.pre = "fresh") =>
        /\ lastCall.offsets = <<>>
        /\ lastCall.ret = session_state[CalledKey]

\* The step is a call of a fetcher whose cache entry is there beforehand, holds a
\* non-empty collection and is not stale.
UsersFreshCall ==
    /\ lastCall'.op \in UsersFetchOps
    /\ EntryStatus(session_state, "all_users_cache", "all_users_cache_timestamp", now,
                   DefaultMaxAge) = "fresh"
    /\ session_state["all_users_cache"] # <<>>
RecordsFreshCall ==
    /\ lastCall'.op \in RecordsFetchOps
    /\ EntryStatus(session_state, "records_cache", "records_cache_timestamp", now,
                   DefaultMaxAge) = "fresh"
    /\ session_state["records_cache"] # <<>>
SameEntry(key, tskey) ==
    /\ lastCall'.offsets = <<>>
    /\ lastCall'.ret = session_state[key]
    /\ Has(session_state', key) /\ session_state'[key] = session_state[key]
    /\ Has(session_state', tskey) /\ session_state'[tskey] = session_state[tskey]

\* C4, amended: a fetcher call on an entry that exists, holds a non-empty
\* collection and is not stale issues no request, returns the stored collection
\* and leaves the collection and its timestamp as they were.
C4_FreshEntryHits ==
    [][ /\ UsersFreshCall => SameEntry("all_users_cache", "all_users_cache_timestamp")
        /\ RecordsFreshCall => SameEntry("records_cache", "records_cache_timestamp") ]_vars

C4_Witness ==
    /\ lastCall.op = "users_page.fetch_all_users_batched"
    /\ lastCall.hit
    /\ lastCall.pre = "fresh"
    /\ lastCall.offsets = <<>>
    /\ lastCall.ret = session_state["all_users_cache"]
    /\ now - session_state["all_users_cache_timestamp"] = DefaultMaxAge

\* The age limits the staleness predicates are tried with.
AgeLimits == 1..(DefaultMaxAge + 1)
StaleBy(tskey, ttl) ==
    ~Has(session_state, tskey) \/ now - session_state[tskey] > ttl

\* C5: for every age limit > 0 the staleness predicates answer true exactly
\* when now - timestamp is strictly greater than the limit (an entry aged
\* exactly the limit is not stale), and true when no timestamp is stored.
C5_StaleIffOlder ==
    \A ttl \in AgeLimits :
        /\ users_page_is_cache_stale(session_state, now, ttl)
               = StaleBy("all_users_cache_timestamp", ttl)
        /\ contributions_is_cache_stale(session_state, now, ttl)
               = StaleBy("all_users_cache_timestamp", ttl)
        /\ is_records_cache_stale(session_state, now, ttl)
               = StaleBy("records_cache_timestamp", ttl)

C5_Witness ==
    /\ Has(session_state, "all_users_cache_timestamp")
    /\ now - session_state["all_users_cache_timestamp"] = DefaultMaxAge
    /\ ~users_page_is_cache_stale(session_state, now, DefaultMaxAge)
    /\ users_page_is_cache_stale(session_state, now, DefaultMaxAge - 1)
    /\ ~Has(session_state, "records_cache_timestamp")
    /\ is_records_cache_stale(session_state, now, DefaultMaxAge)

\* C6: after an invalidation the cache entry is absent, and a fetcher call that
\* follows it, however soon, goes to the network: it issues at least one page
\* request, the first at offset 0.
C6_InvalidateThenFetch ==
    /\ lastCall.op \in {"users_page.refresh_or_clear", "contributions_page.clear_users_cache"}
           => /\ ~Has(session_state, "all_users_cache")
              /\ ~Has(session_state, "all_users_cache_timestamp")
    /\ lastCall.op = "records_page.clear_records_cache"
           => /\ ~Has(session_state, "records_cache")
              /\ ~Has(session_state, "records_cache_timestamp")
    /\ (lastCall.op \in FetchOps /\ lastCall.after \in CalledInvalidations)
           => /\ lastCall.pre = "absent"
              /\ ~lastCall.hit
              /\ Len(lastCall.offsets) >= 1
              /\ lastCall.offsets[1] = 0

C6_Witness ==
    /\ lastCall.op = "users_page.fetch_all_users_batched"
    /\ lastCall.after = "users_page.refresh_or_clear"
    /\ lastCall.after_fresh
    /\ lastCall.fail = "none"
    /\ Len(lastCall.offsets) = 3
    /\ lastCall.offsets[1] = 0
    /\ session_state["all_users_cache_timestamp"] = now

\* C8, as stated: whenever the entry is absent or stale, the call fetches afresh
\* and replaces the entry: the stored collection is the fetched sequence and the
\* timestamp is the time of this fetch.
C8_AlwaysReplaces ==
    (lastCall.op \in FetchOps /\ lastCall.pre \in {"absent", "stale"}) =>
        /\ Len(lastCall.offsets) >= 1
        /\ Has(session_state, CalledKey) /\ session_state[CalledKey] = lastCall.ret
        /\ Has(session_state, CalledTsKey) /\ session_state[CalledTsKey] = now

\* C8, amended: when the entry is absent or stale the call fetches afresh from
\* offset 0 and, unless a page request raises an exception, replaces the entry
\* as a unit: the stored collection is exactly the sequence fetched by this call
\* (the whole listing when every page succeeds) and the timestamp is the time of
\* this fetch.  MaxUsers users with page size 2 take MaxUsers \div 2 + 1 requests,
\* a call while the entry is at most 30 minutes old takes none, and a call at
\* 31 minutes takes as many as the first.
C8_ReplacedAsUnit ==
    /\ (lastCall.op \in FetchOps /\ lastCall.pre \in {"absent", "stale"}) =>
          /\ ~lastCall.hit
          /\ Len(lastCall.offsets) >= 1 /\ lastCall.offsets[1] = 0
          /\ lastCall.fail # "raise" =>
                /\ Has(session_state, CalledKey) /\ session_state[CalledKey] = lastCall.ret
                /\ Has(session_state, CalledTsKey) /\ session_state[CalledTsKey] = now
          /\ lastCall.fail = "none" =>
                /\ session_state[CalledKey] = CalledServer.listing
                /\ Len(lastCall.offsets) = Len(CalledServer.listing) \div lastCall.batch + 1
    /\ (lastCall.op \in FetchOps /\ lastCall.pre = "fresh" /\ ~lastCall.old_empty) =>
          lastCall.offsets = <<>>

C8_Witness ==
    /\ lastCall.op = "users_page.fetch_all_users_batched"
    /\ lastCall.pre = "stale"
    /\ lastCall.dropped
    /\ lastCall.fail = "none"
    /\ now = DefaultMaxAge + 1
    /\ Len(lastCall.offsets) = 3
    /\ session_state["all_users_cache"] = server_users.listing
    /\ session_state["all_users_cache_timestamp"] = now


Range(seq) == {seq[i] : i \in DOMAIN seq}
Distinct(seq) == \A i, j \in DOMAIN seq : i # j => seq[i] # seq[j]

\* The cache pairs of the session.
CachePairs == {<<"all_users_cache", "all_users_cache_timestamp">>,
               <<"records_cache", "records_cache_timestamp">>,
               <<"activity_analysis_cache", "activity_analysis_timestamp">>}

\* C7: at every point of a session each cache entry is either fully present
\* (collection and timestamp) or fully absent, whatever fetches, failed
\* fetches, refreshes, enrichment runs, logins and logouts came before.
C7_PairsComplete ==
    \A pair \in CachePairs : Has(session_state, pair[1]) <=> Has(session_state, pair[2])

\* A refresh on the contributions page has just dropped the users and analysis
\* entries, both held before, of a session that still holds its records entry.
C7_Witness ==
    /\ lastCall.op = "contributions_page.clear_users_cache"
    /\ lastCall.pre # "absent"
    /\ Has(session_state, "records_cache") /\ Has(session_state, "records_cache_timestamp")
    /\ ~Has(session_state, "all_users_cache")
    /\ ~Has(session_state, "activity_analysis_cache")
    /\ lastCall.analysis = "held"


\* C9: a cold enrichment run on K users with distinct non-empty ids returns a
\* map of exactly K entries, one per id, whichever of the per-user calls fail;
\* and a run that has started can always take its next step up to its return
\* (a pool step is enabled, or every unit is collected, which is the whole
\* guard of Return: the rest of Return is assignments).
C9_OneEntryPerEntity ==
    /\ (lastCall.analysis = "cold" /\ Distinct(run.users) /\ 0 \notin Range(run.users)) =>
           /\ Len(lastCall.map) = Len(run.users)
           /\ DictKeys(lastCall.map) = Range(run.users)
    /\ ~Idle => \/ ENABLED (Submit \/ StartTask \/ Finish(Answers) \/ Collect)
                \/ (run.pc = "collecting" /\ UnitsIn("collected") = DOMAIN run.units)

\* A cold run on three users has returned; one call failed, one succeeded.
C9_Witness ==
    /\ lastCall.analysis = "cold"
    /\ Len(run.users) = 3 /\ Distinct(run.users) /\ 0 \notin Range(run.users)
    /\ Len(lastCall.map) = 3
    /\ \E i, j \in DOMAIN run.units : run.units[i].failed /\ ~run.units[j].failed

StatisticsOp == "contributions_page.get_user_activity_statistics"

\* C11: a call of analyze_user_activity_bulk reuses the cached enrichment map
\* exactly when that map's own timestamp (activity_analysis_timestamp) is at
\* most 15 minutes old, and recomputes it otherwise, whatever the age of the
\* users cache entry.
C11_OwnTimestampDecides ==
    (lastCall.op = StatisticsOp /\ lastCall.analysis \in {"hit", "running"}) =>
        (lastCall.analysis = "hit" <=> lastCall.analysis_pre = "fresh")

\* What the code tests instead: the enrichment map is reused exactly when it
\* exists and the users entry's timestamp is at most 15 minutes old.
C11_UsersTimestampDecides ==
    (lastCall.op = StatisticsOp /\ lastCall.analysis \in {"hit", "running"}) =>
        (lastCall.analysis = "hit" <=>
            /\ lastCall.analysis_pre # "absent"
            /\ now - session_state["all_users_cache_timestamp"] <= ActivityMaxAge)

\* C12: the map analyze_user_activity_bulk returns, computed or cached, has as
\* its keys exactly the non-empty ids of the users passed to that call.
C12_KeysAreTheUsersIds ==
    (lastCall.op = StatisticsOp /\ lastCall.analysis \in {"hit", "cold"}) =>
        DictKeys(lastCall.map) = Range(lastCall.ret) \ {0}


\* C13: an enrichment run schedules one call of fetch_user_contributions_summary
\* for each user with a non-empty id, in the order of the collection, and none
\* for a user without id; at every moment at most max_workers of them are in
\* flight.
C13_OnePerIdAtMostMaxWorkers ==
    /\ [i \in DOMAIN run.units |-> run.units[i].user]
           = SelectSeq(run.users, LAMBDA user : user # 0)
    /\ Cardinality(UnitsIn("running")) <= run.max_workers

\* The pool of a run on a collection with a user without id is full while a
\* submitted call still waits for a worker.
C13_Witness ==
    /\ ~Idle
    /\ 0 \in Range(run.users)
    /\ Cardinality(UnitsIn("running")) = run.max_workers
    /\ UnitsIn("pending") # {}


\* C14: completed_count is incremented once per scheduled call under every
\* completion order, never exceeds the total it is reported against
\* (total_users), and equals that total exactly when the last scheduled call
\* has been handled.
C14_ProgressExact ==
    /\ run.completed_count = Cardinality(UnitsIn("collected"))
    /\ run.completed_count <= run.total_users
    /\ run.completed_count = run.total_users <=> UnitsIn("collected") = DOMAIN run.units

\* What holds of the count: it is the number of calls handled so far and never
\* exceeds total_users, and it equals the number of scheduled calls exactly
\* when the last one has been handled.
C14_CountsHandledCalls ==
    /\ run.completed_count = Cardinality(UnitsIn("collected"))
    /\ run.completed_count <= run.total_users
    /\ run.completed_count = Len(run.units) <=> UnitsIn("collected") = DOMAIN run.units


\* The map the completion loop builds when the calls complete in the order
\* they were submitted.
RECURSIVE InOrderMap(_, _)
InOrderMap(units, n) ==
    IF n = 0 THEN <<>>
    ELSE collect_future(InOrderMap(units, n - 1), units[n].user, units[n].result)

\* C15: for a fixed collection and fixed outcomes of the calls, the map a cold
\* run returns (its keys and the entry under each key) is the one completion in
\* submission order gives, for every completion order and every pool size.
C15_SameForEveryOrder ==
    lastCall.analysis = "cold" =>
        Items(lastCall.map) = Items(InOrderMap(run.units, Len(run.units)))

\* C15 amended: the same, for a collection whose non-empty ids are distinct.
C15_SameForEveryOrderDistinctIds ==
    (lastCall.analysis = "cold" /\ Distinct(scheduled_users(run.users))) =>
        Items(lastCall.map) = Items(InOrderMap(run.units, Len(run.units)))

\* A cold run on three users with distinct ids and a pool of MaxWorkers has
\* returned a map whose entries were stored in another order than submitted.
C15_Witness ==
    /\ lastCall.analysis = "cold"
    /\ Len(run.users) = 3 /\ Distinct(scheduled_users(run.users))
    /\ run.max_workers = MaxWorkers
    /\ lastCall.map # InOrderMap(run.units, Len(run.units))
    /\ \E i \in DOMAIN run.units : run.units[i].reported > 0


\* get_user_activity_statistics has returned statistics.
StatisticsReturned == lastCall.op = StatisticsOp /\ lastCall.stats # <<>>
Statistics == lastCall.stats[1]
PositionIn(q, x) == CHOOSE i \in DOMAIN q : q[i] = x /\ \A j \in 1..(i - 1) : q[j] # x
MapUsers == [i \in DOMAIN lastCall.map |-> lastCall.map[i].value.user]

\* C16: the top contributors are sorted by total descending, and users with
\* equal total appear in the order they have in the users collection, for
\* every completion order of the calls.
C16_TiesInCollectionOrder ==
    (StatisticsReturned /\ Distinct(lastCall.ret)) =>
        LET top == Statistics.top_contributors IN
        \A p, q \in DOMAIN top :
            p < q => \/ top[p][2] > top[q][2]
                     \/ /\ top[p][2] = top[q][2]
                        /\ PositionIn(lastCall.ret, top[p][1]) < PositionIn(lastCall.ret, top[q][1])

\* What holds of the ranking: it is sorted by total descending, and users with
\* equal total appear in the order in which their calls were handled (the
\* insertion order of the map).
C16_TiesInCompletionOrder ==
    (StatisticsReturned /\ Distinct(lastCall.ret)) =>
        LET top == Statistics.top_contributors IN
        \A p, q \in DOMAIN top :
            p < q => \/ top[p][2] > top[q][2]
                     \/ /\ top[p][2] = top[q][2]
                        /\ PositionIn(MapUsers, top[p][1]) < PositionIn(MapUsers, top[q][1])

\* The entries of the returned map with a non-zero total.
NonZeroEntries == {i \in DOMAIN lastCall.map : lastCall.map[i].value.total_contributions # 0}

\* C17: the activity rate equals the number of entries of the enrichment map
\* with a non-zero total divided by the number of entries of the map, times
\* 100, and is 0 when the map has no entry.
C17_RateOverMapEntries ==
    StatisticsReturned =>
        LET rate == Statistics.activity_rate IN
        IF Len(lastCall.map) = 0 THEN rate.num = 0
        ELSE rate.num * Len(lastCall.map) = Cardinality(NonZeroEntries) * 100 * rate.den

\* C17 amended: the activity rate equals the number of entries of the map with
\* a non-zero total divided by the number of users of the collection, times
\* 100; for an empty collection no statistics are returned.
C17_RateOverUsers ==
    /\ StatisticsReturned =>
        /\ Len(lastCall.ret) > 0
        /\ Statistics.activity_rate.num * Len(lastCall.ret)
               = Cardinality(NonZeroEntries) * 100 * Statistics.activity_rate.den
    /\ (lastCall.op = StatisticsOp /\ lastCall.ret = <<>>) => lastCall.stats = <<>>

\* Statistics were returned for a collection with a user without id: the map
\* has fewer entries than the collection has users, and one of them has a
\* non-zero total.
C17_Witness ==
    /\ StatisticsReturned
    /\ Len(lastCall.map) < Len(lastCall.ret)
    /\ NonZeroEntries # {}
    /\ NonZeroEntries # DOMAIN lastCall.map


\* The bucket the breakdown is to count a value in: lower-cased and trimmed,
\* male/m, female/f, other/o, else unknown.
ExpectedBucket(value) ==
    IF value \in {Str(<<"M", "a", "l", "e">>), Str(<<"m">>), Str(<<"M">>)} THEN "male"
    ELSE IF value \in {Str(<<"F", "E", "M", "A", "L", "E">>), Str(<<" ", "F", " ">>),
                       Str(<<"f", "\n">>)} THEN "female"
    ELSE IF value \in {Str(<<"O", "t", "h", "e", "r">>), Str(<<"o">>)} THEN "other"
    ELSE "unknown"
ExpectedCounts(users) ==
    [b \in {"male", "female", "other", "unknown"} |->
        Cardinality({i \in DOMAIN users : ExpectedBucket(users[i]) = b})]

\* C18: both gender breakdowns lower-case and trim each value, count male/m,
\* female/f and other/o in their bucket and every other value (missing, None,
\* empty, unrecognised, 'string', 'null') as unknown; Male, m, FEMALE, blah,
\* '', None give male 2, female 1, unknown 3; the two pages give the same
\* counts for every collection.
C18_GenderCounts ==
    lastCall.op = "gender_counts" =>
        /\ lastCall.stats[1].users_page = ExpectedCounts(lastCall.ret)
        /\ lastCall.stats[1].contributions_page = lastCall.stats[1].users_page
        /\ lastCall.ret = GenderExample =>
               /\ lastCall.stats[1].users_page["male"] = 2
               /\ lastCall.stats[1].users_page["female"] = 1
               /\ lastCall.stats[1].users_page["other"] = 0
               /\ lastCall.stats[1].users_page["unknown"] = 3

\* The breakdowns of the example have been computed.
C18_Witness ==
    /\ lastCall.op = "gender_counts"
    /\ lastCall.ret = GenderExample
    /\ lastCall.stats[1].contributions_page["male"] = 2
    /\ lastCall.stats[1].contributions_page["unknown"] = 3


\* The keys of the three cache entries.
CacheKeys == UNION {{pair[1], pair[2]} : pair \in CachePairs}
NoCaches(ss) == \A key \in CacheKeys : ~Has(ss, key)

\* C19: after Logout no users, records or enrichment entry (collection or
\* timestamp) exists and logged_in and token are cleared; a session that is
\* not logged in holds no cache, a login creates none, and a fetch that finds
\* no entry issues page requests from offset 0: the first fetch after the next
\* login is cold.
C19_LogoutDestroysCaches ==
    /\ [](/\ lastCall.op = "logout" =>
                /\ NoCaches(session_state)
                /\ session_state["logged_in"] = FALSE
                /\ session_state["token"] = "None"
          /\ ~LoggedIn(session_state) => NoCaches(session_state)
          /\ (lastCall.op \in FetchOps /\ lastCall.pre = "absent") =>
                /\ ~lastCall.hit
                /\ lastCall.offsets # <<>>
                /\ lastCall.offsets[1] = 0)
    /\ [][(~LoggedIn(session_state) /\ LoggedIn(session_state')) =>
              NoCaches(session_state')]_vars

\* Logout has just ended a session that held a users entry and an enrichment
\* map.
C19_Witness ==
    /\ lastCall.op = "logout"
    /\ lastCall.pre # "absent"
    /\ lastCall.analysis = "held"
    /\ ~LoggedIn(session_state)


\* The statuses each write operation takes for success.
SuccessStatuses(op) ==
    IF op \in {"utils.create_data", "records_page.upload_record"} THEN {200, 201}
    ELSE IF op \in {"users_page.create_user", "categories_page.create_category"} THEN {201}
    ELSE IF op = "utils.delete_data" THEN {200, 204}
    ELSE IF op \in {"categories_page.delete_category", "records_page.delete_record"} THEN {204}
    ELSE {200}
WriteShape(op) == IF op = "users_page.delete_user" THEN "triple" ELSE "pair"
ApiAnswer == lastCall.stats[1].answer
ApiReturn == lastCall.stats[1].result

\* C20: no API operation raises; on every transport failure, non-success
\* status or undecodable body a read returns a value and a write returns a
\* (success, message) or (success, message, status) tuple with success false.
C20_NoRaiseFailureIsFalse ==
    lastCall.op \in ApiOps =>
        /\ ~ApiReturn.raised
        /\ lastCall.op \in ReadOps => ApiReturn.shape = "value"
        /\ lastCall.op \in WriteOps =>
               /\ ApiReturn.shape = WriteShape(lastCall.op)
               /\ (\/ ~ApiAnswer.sent
                   \/ ApiAnswer.status \notin SuccessStatuses(lastCall.op)
                   \/ ApiAnswer.body \in {"undecodable", "empty"}) => ~ApiReturn.success

\* C20 amended: no API operation raises; a read always returns a value; a
\* write returns its tuple, with success false on every transport failure and
\* every non-success status (whatever the body), and with success true on a
\* success status whatever the body.
C20_NoRaiseSuccessByStatus ==
    lastCall.op \in ApiOps =>
        /\ ~ApiReturn.raised
        /\ lastCall.op \in ReadOps => ApiReturn.shape = "value"
        /\ lastCall.op \in WriteOps =>
               /\ ApiReturn.shape = WriteShape(lastCall.op)
               /\ ApiReturn.success <=>
                      (ApiAnswer.sent /\ ApiAnswer.status \in SuccessStatuses(lastCall.op))

\* A user creation was refused with a body that does not decode, and the
\* caller got (False, message).
C20_Witness ==
    /\ lastCall.op = "users_page.create_user"
    /\ ApiAnswer.sent /\ ApiAnswer.status = 500 /\ ApiAnswer.body = "undecodable"
    /\ ApiReturn.shape = "pair" /\ ~ApiReturn.success /\ ~ApiReturn.raised

\* The last call was a write that the backend answered with a non-success status.
RefusedWrite ==
    /\ lastCall.op \in WriteOps
    /\ ApiAnswer.sent
    /\ ApiAnswer.status \notin SuccessStatuses(lastCall.op)

\* C21: every write that receives a non-success status returns a message that
\* is the backend's detail when the body is a JSON object holding one, and the
\* raw response text when the detail is absent or the body is no JSON; such an
\* answer is never reported as a network error.
C21_DetailElseRawText ==
    RefusedWrite =>
        /\ ApiReturn.value # "Network error"
        /\ ApiAnswer.body = "dict" => ApiReturn.value = "detail"
        /\ ApiAnswer.body \in {"dict_nokey", "list", "undecodable"} => ApiReturn.value = "text"

\* C21, what the code does: the writes of records_page.py follow the rule; the
\* other writes report the detail when the body holds one, and a network error
\* is reported for a body that does not decode only by the writes that read
\* the detail unguarded.
UnguardedDetailOps == {"utils.create_data", "utils.update_data", "utils.delete_data",
                       "users_page.create_user", "users_page.update_user",
                       "categories_page.create_category", "categories_page.update_category"}
C21_GuardedWritesFallBack ==
    RefusedWrite =>
        /\ ApiAnswer.body = "dict" => ApiReturn.value = "detail"
        /\ (lastCall.op \in {"records_page.upload_record", "records_page.delete_record",
                             "records_page.update_record"}
               /\ ApiAnswer.body \in {"dict_nokey", "list", "undecodable"})
               => ApiReturn.value = "text"
        /\ ApiReturn.value = "Network error"
               => (lastCall.op \in UnguardedDetailOps
                   /\ ApiAnswer.body \in {"list", "undecodable", "empty"})

\* The run has returned: every scheduled unit was handled and the result map
\* is in the enrichment cache with the time of the return.
RunStored ==
    /\ run.pc = "idle"
    /\ lastCall.analysis = "cold"
    /\ UnitsIn("collected") = DOMAIN run.units
    /\ Has(session_state, "activity_analysis_cache")
    /\ Has(session_state, "activity_analysis_timestamp")
    /\ session_state["activity_analysis_cache"] = run.user_activity
    /\ session_state["activity_analysis_timestamp"] = now

\* C22: when every per-unit call answers or hits its timeout, every started
\* run of analyze_user_activity_bulk eventually returns with all its scheduled
\* units finished and its result and timestamp stored in the enrichment cache,
\* whichever units are unresponsive.
C22_RunCompletes == (run.pc # "idle") ~> RunStored

\* A run of three units on two threads has returned and stored its map
\* although no unit got an answer.
C22_Witness ==
    /\ RunStored
    /\ Len(run.units) = 3
    /\ run.max_workers = 2
    /\ \A i \in DOMAIN run.units : run.units[i].failed

\* The page the server holds at the k-th offset of the last call.
PageOf(k) == Page(CalledServer.listing, (k - 1) * lastCall.batch, lastCall.batch)
\* The k-th page request of the last call was answered by a full page.
FullPage(k) ==
    /\ CalledServer.up
    /\ lastCall.at # k
    /\ Len(PageOf(k)) = lastCall.batch

\* C23: within one fetcher call the page requests are issued one after the
\* other with the offsets 0, P, 2P, ... in increasing order, no offset twice
\* (no retry); every request but the last was answered by a full page of P
\* items, and the request answered by the first failed, malformed, empty or
\* short page is the last one.
C23_OffsetsInOrderNoRetry ==
    ColdFetch =>
        LET n == Len(lastCall.offsets) IN
        /\ n >= 1
        /\ lastCall.offsets = Offsets(n, lastCall.batch)
        /\ \A i, j \in 1..n : i < j => lastCall.offsets[i] < lastCall.offsets[j]
        /\ \A k \in 1..(n - 1) : FullPage(k)
        /\ ~FullPage(n)
        /\ lastCall.fail # "none" <=> (~CalledServer.up \/ lastCall.at = n)

\* The second page of the records was refused: two requests, at 0 and at
\* limit, and none after the refusal.
C23_Witness ==
    /\ ColdFetch
    /\ lastCall.op = "records_page.fetch_all_records"
    /\ lastCall.fail = "non200"
    /\ lastCall.at = 2
    /\ lastCall.offsets = <<0, limit>>
    /\ Len(CalledServer.listing) > 2 * limit

\* q is the listing cut short: some but not all of its items, from the start.
StrictPrefix(q, listing) ==
    /\ q # <<>>
    /\ Len(q) < Len(listing)
    /\ q = SubSeq(listing, 1, Len(q))
\* The entry holds a part of the server's listing and is not stale.
PartialEntry(key, tskey, server) ==
    /\ EntryStatus(session_state, key, tskey, now, DefaultMaxAge) = "fresh"
    /\ StrictPrefix(session_state[key], server.listing)
\* The step is a fetcher call answered from the entry, with no request and no
\* error signal, that leaves the entry as it was.
ServedFromEntry(key, tskey) ==
    /\ lastCall'.hit
    /\ lastCall'.offsets = <<>>
    /\ lastCall'.errors = 0 /\ lastCall'.fail = "none"
    /\ lastCall'.ret = session_state[key]
    /\ Has(session_state', key) /\ session_state'[key] = session_state[key]
    /\ Has(session_state', tskey) /\ session_state'[tskey] = session_state[tskey]

\* C24: a fetch that aborts on a status other than 200 or on a body that is no
\* list after at least one full page stores the pages it has (the non-empty
\* start of the listing) with the current time, as it would store a complete result;
\* and every fetcher call made while an entry holding a part of the listing is
\* at most 30 minutes old returns that part with no request and no error signal.
C24_PartialServedAsComplete ==
    /\ []((ColdFetch /\ lastCall.fail \in {"non200", "nonlist"} /\ lastCall.at >= 2) =>
             (/\ lastCall.ret # <<>>
              /\ lastCall.ret = SubSeq(CalledServer.listing, 1,
                                       (lastCall.at - 1) * lastCall.batch)
              /\ Has(session_state, CalledKey) /\ session_state[CalledKey] = lastCall.ret
              /\ Has(session_state, CalledTsKey) /\ session_state[CalledTsKey] = now))
    /\ [][ /\ ((lastCall'.op \in UsersFetchOps
                  /\ PartialEntry("all_users_cache", "all_users_cache_timestamp", server_users))
                 => ServedFromEntry("all_users_cache", "all_users_cache_timestamp"))
            /\ ((lastCall'.op \in RecordsFetchOps
                  /\ PartialEntry("records_cache", "records_cache_timestamp", server_records))
                 => ServedFromEntry("records_cache", "records_cache_timestamp")) ]_vars

\* Thirty minutes after they were fetched, two of the users (the listing holds
\* more) are served from the cache.
C24_Witness ==
    /\ lastCall.op = "contributions_page.fetch_all_users_batched"
    /\ lastCall.hit /\ lastCall.errors = 0
    /\ now = DefaultMaxAge
    /\ session_state["all_users_cache_timestamp"] = 0
    /\ Len(lastCall.ret) = 2
    /\ StrictPrefix(lastCall.ret, server_users.listing)

\* The step is one pass of the as_completed loop in the script thread: one
\* finished future is handled, its entry stored and the counter raised by one,
\* and no task starts or finishes in the same step.
OneCompletionHandled ==
    /\ run.pc = "collecting"
    /\ \E i \in UnitsIn("done") :
          /\ run'.units = [run.units EXCEPT ![i].st = "collected"]
          /\ run'.user_activity = collect_future(run.user_activity, run.units[i].user,
                                                  run.units[i].result)
          /\ run'.completed_count = run.completed_count + 1
\* The step starts a run: an empty map and a counter of 0.
RunStarts ==
    /\ run.pc = "idle"
    /\ run'.user_activity = <<>>
    /\ run'.completed_count = 0

\* C25: the result map and the progress counter of an enrichment run are
\* written only by the loop that handles the completions, one completion at a
\* time: every step that changes user_activity or completed_count handles
\* exactly one finished future (or starts a run), also while worker threads
\* are running, and no step of a worker thread changes either.
C25_WritesSerialized ==
    [][ (run'.user_activity # run.user_activity \/ run'.completed_count # run.completed_count)
            => (OneCompletionHandled \/ RunStarts) ]_vars

\* One completion has been stored and counted while another task is running.
C25_Witness ==
    /\ run.pc = "collecting"
    /\ run.completed_count = 1
    /\ Len(run.user_activity) = 1
    /\ UnitsIn("running") # {}
    /\ UnitsIn("pending") # {}

\* The step is a call of a write operation; it leaves every cache key as it was.
WriteStep == lastCall'.op \in WriteOps
CachesUnchanged ==
    \A k \in CacheKeys :
        /\ Has(session_state', k) <=> Has(session_state, k)
        /\ Has(session_state, k) => session_state'[k] = session_state[k]
\* The step is a fetcher call that follows a successful write.
FetchAfterWrite ==
    /\ lastCall.op \in WriteOps
    /\ lastCall.stats[1].result.success
    /\ lastCall'.op \in FetchOps
\* ... and returns the collection the cache held before the write, with no request.
PreWriteCollection ==
    LET key == IF lastCall'.op \in RecordsFetchOps THEN "records_cache" ELSE "all_users_cache"
    IN  /\ lastCall'.offsets = <<>>
        /\ lastCall'.ret = session_state[key]

\* C26, as stated: the write operations leave the users/records cache
\* collections, their timestamps and the enrichment cache unchanged, so a
\* fetcher call within the TTL after a successful write returns the pre-write
\* collection with zero requests.
C26_WritesLeaveCaches ==
    [][ /\ WriteStep => CachesUnchanged
        /\ (FetchAfterWrite /\ lastCall'.pre = "fresh") => PreWriteCollection ]_vars

\* C26, amended: the write operations leave the users/records cache
\* collections, their timestamps and the enrichment cache unchanged, so a
\* fetcher call after a successful write, on an entry that is at most 30
\* minutes old and holds a non-empty collection, returns the pre-write
\* collection with zero requests.
C26_WritesLeaveNonEmptyCaches ==
    [][ /\ WriteStep => CachesUnchanged
        /\ (FetchAfterWrite /\ lastCall'.pre = "fresh" /\ ~lastCall'.old_empty)
               => PreWriteCollection ]_vars

\* A user was created, and the users fetched before are returned from the
\* cache: the listing has one user more than the collection returned.
C26_Witness ==
    /\ lastCall.op = "users_page.fetch_all_users_batched"
    /\ lastCall.hit
    /\ lastCall.offsets = <<>>
    /\ lastCall.ret # <<>>
    /\ server_users.listing = Append(lastCall.ret, ServerOrder[Len(lastCall.ret) + 1])

\* C27: in every statistics snapshot returned by get_user_activity_statistics,
\* after any sequence of fetches, expiries and refreshes from the users page
\* and the contributions page, 0 <= users_with_contributions <= total_users,
\* hence users_with_zero_records >= 0 and activity_rate <= 100.
C27_ContributorsWithinUsers ==
    StatisticsReturned =>
        /\ 0 <= Statistics.users_with_contributions
        /\ Statistics.users_with_contributions <= Statistics.total_users
        /\ Statistics.users_with_zero_records >= 0
        /\ Statistics.activity_rate.num <= 100 * Statistics.activity_rate.den

\* C27, what the code keeps: the contributors are counted over the entries
\* of the map the call used, the users over the collection it was given.
C27_ContributorsWithinMap ==
    StatisticsReturned =>
        /\ Statistics.total_users = Len(lastCall.ret)
        /\ Statistics.users_with_contributions = Cardinality(NonZeroEntries)
        /\ 0 <= Statistics.users_with_contributions
        /\ Statistics.users_with_contributions <= Len(lastCall.map)
        /\ Statistics.users_with_zero_records
               = Statistics.total_users - Statistics.users_with_contributions

\* C28: when a page request raises a transport exception, at the first page
\* or in the middle of a fetch, the fetcher returns an empty list (the pages
\* accumulated so far are not returned as a prefix) and the cache entry and
\* its timestamp are left exactly as they were before the call.
C28_RaiseReturnsEmptyKeepsEntry ==
    [][ (lastCall'.op \in FetchOps /\ lastCall'.fail = "raise") =>
            /\ ~lastCall'.hit
            /\ lastCall'.ret = <<>>
            /\ CachesUnchanged ]_vars

\* The third request raised after two full pages: nothing is returned, and
\* the entry older than 30 minutes is still there.
C28_Witness ==
    /\ lastCall.op = "users_page.fetch_all_users_batched"
    /\ lastCall.fail = "raise"
    /\ lastCall.at = 3
    /\ lastCall.offsets = <<0, lastCall.batch, 2 * lastCall.batch>>
    /\ lastCall.ret = <<>>
    /\ lastCall.pre = "stale"
    /\ session_state["all_users_cache"] # <<>>
    /\ now - session_state["all_users_cache_timestamp"] > DefaultMaxAge

\* The session state with the users entry read as the records entry: the
\* same initial cache for fetch_all_records.
AsRecordsEntry(ss) ==
    LET base == Del(Del(Del(Del(ss, "all_users_cache"), "all_users_cache_timestamp"),
                        "records_cache"), "records_cache_timestamp")
        s1 == IF Has(ss, "all_users_cache")
              THEN Put(base, "records_cache", ss["all_users_cache"]) ELSE base
    IN  IF Has(ss, "all_users_cache_timestamp")
        THEN Put(s1, "records_cache_timestamp", ss["all_users_cache_timestamp"]) ELSE s1
\* What a fetcher call shows: the offsets requested (and so the page it stops
\* at), the value returned, whether the cache answered, the failure and the
\* error signals, and the entry afterwards.
Observed(w, key, tskey) ==
    [offsets |-> w.offsets, ret |-> w.ret, hit |-> w.hit, fail |-> w.fail, errors |-> w.errors,
     has |-> Has(w.ss, key), collection |-> Stored(w.ss, key),
     stamped |-> Has(w.ss, tskey), timestamp |-> IF Has(w.ss, tskey) THEN w.ss[tskey] ELSE 0]
UsersObserved(batch_size, script) ==
    Observed(users_page_fetch_all_users_batched(session_state, now, server_users, batch_size,
                                                script),
             "all_users_cache", "all_users_cache_timestamp")
ContributionsObserved(batch_size, script) ==
    Observed(contributions_fetch_all_users_batched(session_state, now, server_users,
                                                   batch_size, script),
             "all_users_cache", "all_users_cache_timestamp")
RecordsObserved(script) ==
    Observed(fetch_all_records(AsRecordsEntry(session_state), now, server_users, script),
             "records_cache", "records_cache_timestamp")

\* C29: the three paginated fetchers are equivalent: for the same page size,
\* the same initial cache entry and the same sequence of server responses
\* they request the same offsets, stop at the same page, return the same
\* collection and leave the same cache collection and timestamp.
C29_FetchersEquivalent ==
    \A script \in Scripts(MaxUsers + 1) :
        /\ \A batch_size \in PageSizes :
               UsersObserved(batch_size, script) = ContributionsObserved(batch_size, script)
        /\ UsersObserved(limit, script) = RecordsObserved(script)

\* With an entry older than 30 minutes and a second page that is no list, each
\* of the three requests offsets 0 and limit and returns and stores the first page.
C29_Witness ==
    LET script == [at |-> 2, kind |-> "nonlist"]
        w == RecordsObserved(script)
    IN  /\ server_users.up
        /\ EntryStatus(session_state, "all_users_cache", "all_users_cache_timestamp", now,
                       DefaultMaxAge) = "stale"
        /\ w.offsets = <<0, limit>>
        /\ w.ret = SubSeq(server_users.listing, 1, limit)
        /\ w.collection = w.ret /\ w.timestamp = now
        /\ w = UsersObserved(limit, script)
        /\ w = ContributionsObserved(limit, script)

\* The handlers of the resource pages: the fetches, the refresh buttons and
\* the statistics of the users, records and contributions pages.
PageOps == FetchOps \cup InvalidationOps \cup {StatisticsOp}

\* C30: logged_in becomes true only by a verify-otp call answered with status
\* 200 and the admin role, and a logout makes it false again; a failed
\* verification, an answer without the admin role or an exception leaves
\* logged_in and token unchanged; and a resource page is rendered only when
\* logged_in is true and the token is not empty.
C30_OnlyAdminLogsIn ==
    [][ /\ (session_state'["logged_in"] /\ ~session_state["logged_in"])
               => (lastCall'.op = "verify_otp" /\ lastCall'.fail \in AdminAnswers)
        /\ lastCall'.op = "logout" => ~session_state'["logged_in"]
        /\ (lastCall'.op = "verify_otp" /\ lastCall'.fail \notin AdminAnswers)
               => /\ session_state'["logged_in"] = session_state["logged_in"]
                  /\ session_state'["token"] = session_state["token"]
        /\ lastCall'.op \in PageOps
               => (session_state["logged_in"] /\ session_state["token"] # "None") ]_vars

\* A verification answered with the admin role but without a token has set
\* logged_in, and the login page is shown still.
C30_Witness ==
    /\ lastCall.op = "verify_otp"
    /\ lastCall.fail = "admin_no_token"
    /\ session_state["logged_in"]
    /\ session_state["token"] = "None"
    /\ ~LoggedIn(session_state)

====
